---- MODULE Spec2Model ----
(***************************************************************************)
(* Model of the multi-platform publishing code of ai-chatbot:              *)
(*   src/src/services/social_media_service.py  (dispatcher and adapters)   *)
(*   src/src/routes/media.py                   (route handlers)            *)
(*   src/src/models/media.py                   (MediaFile, SocialMediaPost)*)
(*   src/src/services/ai_service.py            (content generation)        *)
(*                                                                         *)
(* Specifications                                                          *)
(*   Spec            the route handlers over the two tables                *)
(*   SpecStored      uploads of every stored file kind, then published     *)
(*   SpecService     direct calls of the dispatcher                        *)
(*   SpecStatus      dispatcher calls by a caller that keeps one result    *)
(*   SpecConcurrent  dispatcher calls of two threads, step by step         *)
(*   SpecViral       ViralTimeService                                      *)
(*   SpecAI          AIService.generate_social_media_content               *)
(*                                                                         *)
(* Encoding of Python values                                               *)
(*   - a str that the code lowercases or tests for dict membership is a    *)
(*     sequence of one-character strings;                                  *)
(*   - an argument of unknown type is a record [t |-> type, v |-> value];  *)
(*   - a dict is a function from its keys to its values;                   *)
(*   - a formatted message f'prefix{x}' is the sequence of its pieces;     *)
(*   - a call either returns or raises: [tag |-> "return", value |-> _]    *)
(*     or [tag |-> "raise", exc |-> _, msg |-> _].                         *)
(***************************************************************************)
EXTENDS Integers, Sequences, FiniteSets, TLC

\* ------------------------------------------------------------------------
\* Bounds of the model
\* ------------------------------------------------------------------------
MaxMedia == 1
MaxPosts == 2

\* ------------------------------------------------------------------------
\* State
\* ------------------------------------------------------------------------
VARIABLES
    media,        \* MediaFile rows: id -> [user_id, file_path, file_type]
    posts,        \* SocialMediaPost rows: id -> row
    nextMediaId,  \* next autoincrement id of MediaFile
    nextPostId,   \* next autoincrement id of SocialMediaPost
    last,         \* the last call: its request, the dispatcher outcome and
                  \* the adapter calls it made, the HTTP response
    remembered,   \* one earlier get_upload_status call kept by its caller:
                  \* its request and result, and whether another dispatcher
                  \* call has been made since
    self_platforms, \* self.platforms of the one SocialMediaService instance:
                  \* key -> the attributes of the adapter object
    threads,      \* the dispatcher call each request thread is in: its
                  \* position, arguments, selected adapter and result
    api_key       \* openai.api_key, set by AIService.__init__ from the
                  \* environment: None when the variable is not set

\* ------------------------------------------------------------------------
\* Python values
\* ------------------------------------------------------------------------
None == "<None>"

Ret(v) == [tag |-> "return", value |-> v]

Raise(exc, msg) == [tag |-> "raise", exc |-> exc, msg |-> msg]

UpperLetters == <<"A","B","C","D","E","F","G","H","I","J","K","L","M",
                  "N","O","P","Q","R","S","T","U","V","W","X","Y","Z">>

LowerLetters == <<"a","b","c","d","e","f","g","h","i","j","k","l","m",
                  "n","o","p","q","r","s","t","u","v","w","x","y","z">>

LowerChar(c) ==
    IF \E i \in DOMAIN UpperLetters : UpperLetters[i] = c
    THEN LowerLetters[CHOOSE i \in DOMAIN UpperLetters : UpperLetters[i] = c]
    ELSE c

\* str.lower()
Lower(s) == [i \in DOMAIN s |-> LowerChar(s[i])]

\* dict.get(key, default)
DictGet(d, k, default) == IF k \in DOMAIN d THEN d[k] ELSE default

\* a or b, for values that are a str or None
PyOr(a, b) == IF a # None /\ a # "" THEN a ELSE b

\* bool(x) of a request value [t |-> type, v |-> value] (a dict keeps its
\* items in a third field d): None, '', 0, [] and {}
\* are false
Truthy(x) ==
    CASE x.t = "None" -> FALSE
      [] x.t = "str" -> x.v # <<>>
      [] x.t = "int" -> x.v # 0
      [] x.t = "list" -> x.v # <<>>
      [] x.t = "dict" -> DOMAIN x.d # {}
      [] OTHER -> TRUE

\* hash(x) is defined: a list or a dict is unhashable
Hashable(x) == x.t \notin {"list", "dict"}

\* str(x) / f'{x}' of a request value
PyStr(x) ==
    CASE x.t = "str" -> x.v
      [] x.t = "None" -> <<"None">>
      [] OTHER -> <<"<", x.t, ">">>

\* The message of the AttributeError raised by x.attr when x has no such
\* attribute
NoAttribute(x, attr) ==
    Raise("AttributeError",
          <<"'", IF x.t = "None" THEN "NoneType" ELSE x.t,
            "' object has no attribute '", attr, "'">>)

\* ------------------------------------------------------------------------
\* Platform names
\* ------------------------------------------------------------------------
youtube == <<"y","o","u","t","u","b","e">>

instagram == <<"i","n","s","t","a","g","r","a","m">>

facebook == <<"f","a","c","e","b","o","o","k">>

tiktok == <<"t","i","k","t","o","k">>

\* SocialMediaService.__init__: the keys of self.platforms
PlatformKeys == {youtube, instagram, facebook, tiktok}

\* ------------------------------------------------------------------------
\* Adapters (YouTubeService, InstagramService, FacebookService, TikTokService)
\* ------------------------------------------------------------------------
\* media_file_path.split('.')[-1]: the part after the last '.', the whole
\* string when it has none
LastDotSegment(path) ==
    LET dots == {i \in DOMAIN path : path[i] = "."}
        from == IF dots = {} THEN 1
                ELSE (CHOOSE i \in dots : \A j \in dots : j <= i) + 1
    IN SubSeq(path, from, Len(path))

VideoExtensions == {<<"m","p","4">>, <<"m","o","v">>, <<"a","v","i">>}

\* file_extension = media_file_path.split('.')[-1].lower()
\* is_video = file_extension in ['mp4', 'mov', 'avi']
IsVideo(path) == Lower(LastDotSegment(path)) \in VideoExtensions

\* metadata.get(key, default) inside an adapter: raises when metadata is not
\* a mapping
MetaGet(metadata, k, default) ==
    IF metadata.t = "dict" THEN Ret(DictGet(metadata.d, k, default))
    ELSE NoAttribute(metadata, "get")

Failure(pieces) == [success |-> FALSE, error |-> pieces]

YouTubeUploadMedia(path, metadata, token) ==
    LET title == MetaGet(metadata, "title", "Untitled Video")
    IN IF title.tag = "raise"
       THEN Ret(Failure(<<"YouTube upload failed: ">> \o title.msg))
       ELSE Ret([success |-> TRUE,
                 platform |-> youtube,
                 video_id |-> "mock_youtube_video_id",
                 url |-> <<"https://youtube.com/watch?v=mock_video_id">>,
                 message |-> "Video uploaded successfully to YouTube"])

InstagramUploadMedia(path, metadata, token) ==
    LET is_video == IsVideo(path)
        ig_user_id == MetaGet(metadata, "ig_user_id", "mock_ig_user_id")
    IN IF ig_user_id.tag = "raise"
       THEN Ret(Failure(<<"Instagram upload failed: ">> \o ig_user_id.msg))
       ELSE Ret([success |-> TRUE,
                 platform |-> instagram,
                 media_id |-> "mock_instagram_media_id",
                 url |-> <<"https://instagram.com/p/mock_media_id">>,
                 message |-> "Media uploaded successfully to Instagram"])

FacebookUploadMedia(path, metadata, token) ==
    LET page_id == MetaGet(metadata, "page_id", "mock_page_id")
        is_video == IsVideo(path)
    IN IF page_id.tag = "raise"
       THEN Ret(Failure(<<"Facebook upload failed: ">> \o page_id.msg))
       ELSE Ret([success |-> TRUE,
                 platform |-> facebook,
                 post_id |-> "mock_facebook_post_id",
                 url |-> <<"https://facebook.com/", page_id.value,
                           "/posts/mock_post_id">>,
                 message |-> "Media uploaded successfully to Facebook"])

TikTokUploadMedia(path, metadata, token) ==
    LET is_video == IsVideo(path)
        title == MetaGet(metadata, "title", "")
    IN IF title.tag = "raise"
       THEN Ret(Failure(<<"TikTok upload failed: ">> \o title.msg))
       ELSE Ret([success |-> TRUE,
                 platform |-> tiktok,
                 publish_id |-> "mock_tiktok_publish_id",
                 url |-> <<"https://tiktok.com/@user/video/mock_video_id">>,
                 message |-> "Media uploaded successfully to TikTok"])

\* A datetime is [t |-> "datetime", v |-> [stamp, secs, micro, aware]]: the
\* wall clock text, the whole seconds since the epoch of that wall clock
\* read as UTC, its microseconds, and whether it carries a UTC offset.
\* scheduled_time.isoformat(): raises when scheduled_time is not a datetime
IsoFormat(scheduled_time) ==
    IF scheduled_time.t = "datetime"
    THEN Ret(IF scheduled_time.v.aware
             THEN <<scheduled_time.v.stamp, "+00:00">>
             ELSE <<scheduled_time.v.stamp>>)
    ELSE NoAttribute(scheduled_time, "isoformat")

\* int(scheduled_time.timestamp()), the local zone of the process being
\* UTC: the whole seconds, the fraction micro / 10^6 being dropped
Timestamp(scheduled_time) ==
    IF scheduled_time.t = "datetime"
    THEN Ret(scheduled_time.v.secs + (scheduled_time.v.micro \div 1000000))
    ELSE NoAttribute(scheduled_time, "timestamp")

LocalScheduleMedia_NativeOnly(key, scheduled_id, message, scheduled_time) ==
    Ret(Failure(key \o <<" does not support native scheduling">>))

\* schedule_media of YouTubeService, InstagramService and TikTokService: the
\* body has no try block
LocalScheduleMedia(key, scheduled_id, message, scheduled_time) ==
    LET iso == IsoFormat(scheduled_time)
    IN IF iso.tag = "raise" THEN iso
       ELSE Ret([success |-> TRUE,
                 platform |-> key,
                 scheduled_id |-> scheduled_id,
                 scheduled_time |-> iso.value,
                 message |-> message])

YouTubeScheduleMedia(path, metadata, token, scheduled_time) ==
    LocalScheduleMedia(youtube, "mock_youtube_scheduled_id",
                       "Video scheduled for YouTube upload", scheduled_time)

InstagramScheduleMedia(path, metadata, token, scheduled_time) ==
    LocalScheduleMedia(instagram, "mock_instagram_scheduled_id",
                       "Media scheduled for Instagram upload", scheduled_time)

TikTokScheduleMedia(path, metadata, token, scheduled_time) ==
    LocalScheduleMedia(tiktok, "mock_tiktok_scheduled_id",
                       "Media scheduled for TikTok upload", scheduled_time)

FacebookScheduleMedia(path, metadata, token, scheduled_time) ==
    LET page_id == MetaGet(metadata, "page_id", "mock_page_id")
        ts == Timestamp(scheduled_time)
        iso == IsoFormat(scheduled_time)
    IN CASE page_id.tag = "raise" ->
              Ret(Failure(<<"Facebook scheduling failed: ">> \o page_id.msg))
         [] page_id.tag # "raise" /\ ts.tag = "raise" ->
              Ret(Failure(<<"Facebook scheduling failed: ">> \o ts.msg))
         [] OTHER ->
              Ret([success |-> TRUE,
                   platform |-> facebook,
                   scheduled_id |-> "mock_facebook_scheduled_id",
                   scheduled_time |-> iso.value,
                   message |-> "Media scheduled for Facebook upload"])

FacebookSchedulePostData_Immediate(metadata, token, scheduled_time) ==
    [message |-> MetaGet(metadata, "description", "").value,
     published |-> "true",
     access_token |-> token]

\* post_data of FacebookService.schedule_media
FacebookSchedulePostData(metadata, token, scheduled_time) ==
    [message |-> MetaGet(metadata, "description", "").value,
     published |-> "false",
     scheduled_publish_time |-> Timestamp(scheduled_time).value,
     access_token |-> token]

\* The request data schedule_media of the adapter builds in its local
\* variables, as <<[var |-> name, value |-> data]>>: only
\* FacebookService.schedule_media builds any
ScheduleRequestBuilt(key, path, metadata, token, scheduled_time) ==
    IF /\ key = facebook
       /\ MetaGet(metadata, "page_id", "mock_page_id").tag # "raise"
       /\ Timestamp(scheduled_time).tag # "raise"
    THEN << [var |-> "post_data",
             value |-> FacebookSchedulePostData(metadata, token, scheduled_time)] >>
    ELSE << >>

\* video_metadata of YouTubeService.upload_media
YouTubeVideoMetadata(metadata) ==
    [snippet |-> [title |-> MetaGet(metadata, "title", "Untitled Video").value,
                  description |-> MetaGet(metadata, "description", "").value,
                  tags |-> MetaGet(metadata, "hashtags", << >>).value,
                  categoryId |-> MetaGet(metadata, "category", "22").value],
     status |-> [privacyStatus |-> MetaGet(metadata, "privacy", "private").value]]

\* container_data of InstagramService.upload_media
InstagramContainerData(path, metadata, token) ==
    IF IsVideo(path)
    THEN [access_token |-> token,
          caption |-> MetaGet(metadata, "description", "").value,
          video_url |-> MetaGet(metadata, "media_url", None).value,
          media_type |-> "VIDEO"]
    ELSE [access_token |-> token,
          caption |-> MetaGet(metadata, "description", "").value,
          image_url |-> MetaGet(metadata, "media_url", None).value]

\* endpoint of FacebookService.upload_media
FacebookUploadEndpoint(path, metadata) ==
    <<"https://graph.facebook.com", "/", "v23.0", "/",
      MetaGet(metadata, "page_id", "mock_page_id").value,
      IF IsVideo(path) THEN "/videos" ELSE "/photos">>

\* post_data of FacebookService.upload_media
FacebookUploadPostData(path, metadata, token) ==
    IF IsVideo(path)
    THEN [description |-> MetaGet(metadata, "description", "").value,
          access_token |-> token]
    ELSE [url |-> MetaGet(metadata, "media_url", None).value,
          message |-> MetaGet(metadata, "description", "").value,
          access_token |-> token]

\* endpoint of TikTokService.upload_media
TikTokUploadEndpoint(path) ==
    <<"https://open.tiktokapis.com", "/", "v2",
      IF IsVideo(path) THEN "/post/publish/video/init/"
      ELSE "/post/publish/content/init/">>

\* post_data of TikTokService.upload_media
TikTokUploadPostData(path, metadata) ==
    IF IsVideo(path)
    THEN [post_info |->
            [title |-> MetaGet(metadata, "title", "").value,
             privacy_level |-> MetaGet(metadata, "privacy", "PUBLIC_TO_EVERYONE").value,
             disable_duet |-> MetaGet(metadata, "disable_duet", FALSE).value,
             disable_comment |-> MetaGet(metadata, "disable_comment", FALSE).value,
             disable_stitch |-> MetaGet(metadata, "disable_stitch", FALSE).value,
             video_cover_timestamp_ms |-> MetaGet(metadata, "cover_timestamp", 1000).value],
          source_info |->
            [source |-> "PULL_FROM_URL",
             video_url |-> MetaGet(metadata, "media_url", None).value]]
    ELSE [post_info |->
            [title |-> MetaGet(metadata, "title", "").value,
             description |-> MetaGet(metadata, "description", "").value,
             privacy_level |-> MetaGet(metadata, "privacy", "PUBLIC_TO_EVERYONE").value,
             disable_comment |-> MetaGet(metadata, "disable_comment", FALSE).value,
             auto_add_music |-> MetaGet(metadata, "auto_add_music", TRUE).value],
          source_info |->
            [source |-> "PULL_FROM_URL",
             photo_cover_index |-> 1,
             photo_images |-> <<MetaGet(metadata, "media_url", None).value>>],
          post_mode |-> "DIRECT_POST",
          media_type |-> "PHOTO"]

\* The request data upload_media of the adapter builds in its local
\* variables; none is left when metadata.get raises
UploadRequestBuilt(key, path, metadata, token) ==
    IF metadata.t # "dict" THEN << >>
    ELSE CASE key = youtube ->
                << [var |-> "video_metadata", value |-> YouTubeVideoMetadata(metadata)] >>
           [] key = instagram ->
                << [var |-> "container_data",
                    value |-> InstagramContainerData(path, metadata, token)],
                   [var |-> "publish_data",
                    value |-> [creation_id |-> "mock_instagram_container_id",
                               access_token |-> token]] >>
           [] key = facebook ->
                << [var |-> "endpoint", value |-> FacebookUploadEndpoint(path, metadata)],
                   [var |-> "post_data",
                    value |-> FacebookUploadPostData(path, metadata, token)] >>
           [] key = tiktok ->
                << [var |-> "endpoint", value |-> TikTokUploadEndpoint(path)],
                   [var |-> "post_data", value |-> TikTokUploadPostData(path, metadata)] >>

GetStatus_NeedsCredential(key, upload_id, token) ==
    IF token = ""
    THEN Ret(Failure(<<"Status check failed: missing access token">>))
    ELSE Ret([success |-> TRUE, platform |-> key, status |-> "completed",
              upload_id |-> upload_id])

GetStatus_Polling(key, upload_id, token) ==
    Ret([success |-> TRUE, platform |-> key,
         status |-> IF last.op = "get_upload_status" THEN "completed"
                    ELSE "processing",
         upload_id |-> upload_id])

\* get_status of the four adapters
GetStatus(key, upload_id, token) ==
    Ret([success |-> TRUE,
         platform |-> key,
         status |-> "completed",
         upload_id |-> upload_id])

\* service.upload_media(...) for service = self.platforms[key]
AdapterUpload(key, path, metadata, token) ==
    CASE key = youtube -> YouTubeUploadMedia(path, metadata, token)
      [] key = instagram -> InstagramUploadMedia(path, metadata, token)
      [] key = facebook -> FacebookUploadMedia(path, metadata, token)
      [] key = tiktok -> TikTokUploadMedia(path, metadata, token)

\* service.schedule_media(...) for service = self.platforms[key]
AdapterSchedule(key, path, metadata, token, scheduled_time) ==
    CASE key = youtube -> YouTubeScheduleMedia(path, metadata, token, scheduled_time)
      [] key = instagram -> InstagramScheduleMedia(path, metadata, token, scheduled_time)
      [] key = facebook -> FacebookScheduleMedia(path, metadata, token, scheduled_time)
      [] key = tiktok -> TikTokScheduleMedia(path, metadata, token, scheduled_time)

\* ------------------------------------------------------------------------
\* Dispatcher (SocialMediaService)
\* ------------------------------------------------------------------------
\* `platform not in self.platforms` looks the value up by hash and equality
InPlatforms(platform) == platform.t = "str" /\ platform.v \in PlatformKeys

UnhashableType(platform) ==
    Raise("TypeError", <<"unhashable type: '", platform.t, "'">>)

Unsupported_Lowered(platform) ==
    [success |-> FALSE,
     error |-> <<"Unsupported platform: ">> \o Lower(PyStr(platform))]

Unsupported(platform) ==
    Failure(<<"Unsupported platform: ">> \o PyStr(platform))

Dispatch_ExceptionKey(platform, method, adapter) ==
    CASE ~Hashable(platform) ->
            [outcome |-> UnhashableType(platform), calls |-> <<>>]
      [] Hashable(platform) /\ ~InPlatforms(platform) ->
            [outcome |-> Ret(Unsupported(platform)), calls |-> <<>>]
      [] OTHER ->
            [outcome |-> IF adapter.tag = "raise"
                         THEN Ret([success |-> FALSE, exception |-> adapter.msg])
                         ELSE adapter,
             calls |-> << [key |-> platform.v, method |-> method,
                           outcome |-> adapter] >>]

\* The body shared by the three dispatcher methods. adapter is the outcome
\* of the adapter method; it is evaluated only when the platform is a key.
\* The result is the outcome of the dispatcher call and the adapter calls
\* it made.
Dispatch(platform, method, adapter) ==
    CASE ~Hashable(platform) ->
            [outcome |-> UnhashableType(platform), calls |-> <<>>]
      [] Hashable(platform) /\ ~InPlatforms(platform) ->
            [outcome |-> Ret(Unsupported(platform)), calls |-> <<>>]
      [] OTHER ->
            [outcome |-> IF adapter.tag = "raise"
                         THEN Ret(Failure(adapter.msg))
                         ELSE adapter,
             calls |-> << [key |-> platform.v, method |-> method,
                           outcome |-> adapter] >>]

\* The request data the adapter call of a dispatcher call built
BuiltIf(platform, built) == IF InPlatforms(platform) THEN built ELSE << >>

ServiceUploadToPlatform(platform, path, metadata, token) ==
    [built |-> BuiltIf(platform,
                       UploadRequestBuilt(platform.v, path, metadata, token))]
    @@ Dispatch(platform, "upload_media",
                AdapterUpload(platform.v, path, metadata, token))

ServiceScheduleUpload(platform, path, metadata, token, scheduled_time) ==
    [built |-> BuiltIf(platform,
                       ScheduleRequestBuilt(platform.v, path, metadata, token,
                                            scheduled_time))]
    @@ Dispatch(platform, "schedule_media",
                AdapterSchedule(platform.v, path, metadata, token, scheduled_time))

ServiceGetUploadStatus(platform, upload_id, token) ==
    [built |-> << >>]
    @@ Dispatch(platform, "get_status", GetStatus(platform.v, upload_id, token))

\* ------------------------------------------------------------------------
\* Persistent store (src/src/models/media.py)
\* ------------------------------------------------------------------------
\* The User table is not written by any modelled route.
Users == {1, 2}

\* The attributes of class SocialMediaPost: its columns and the media_file
\* backref of MediaFile.posts
PostColumns ==
    {"id", "user_id", "media_file_id", "platform", "title", "description",
     "hashtags", "scheduled_time", "status", "post_id", "posted_at",
     "error_message", "created_at", "updated_at", "media_file"}

\* The columns declared nullable=False that the caller has to supply
PostRequired == {"user_id", "media_file_id", "platform", "scheduled_time"}

\* The columns the model keeps of a post row
PostFields ==
    {"user_id", "media_file_id", "platform", "title", "description",
     "hashtags", "scheduled_time", "status", "post_id", "posted_at",
     "error_message"}

PostDefault_Posted(col) == IF col = "status" THEN "posted" ELSE None

\* Column defaults: status = 'scheduled', every other column NULL
PostDefault(col) == IF col = "status" THEN "scheduled" ELSE None

\* Keyword arguments are the sequence of <<name, value>> pairs of the call.
KwNames(kwargs) == {kwargs[i][1] : i \in DOMAIN kwargs}

KwValue(kwargs, name) ==
    kwargs[CHOOSE i \in DOMAIN kwargs : kwargs[i][1] = name][2]

\* SocialMediaPost(**kwargs): the declarative constructor sets each keyword
\* on the instance and raises TypeError for the first keyword that is not an
\* attribute of the class. nulls are the NOT NULL columns the new row leaves
\* NULL.
NewPost(kwargs) ==
    LET bad == {i \in DOMAIN kwargs : kwargs[i][1] \notin PostColumns}
    IN IF bad # {}
       THEN Raise("TypeError",
                  <<"'", kwargs[CHOOSE i \in bad : \A j \in bad : i <= j][1],
                    "' is an invalid keyword argument for SocialMediaPost">>)
       ELSE Ret([row |-> [col \in PostFields |->
                            IF col \in KwNames(kwargs) THEN KwValue(kwargs, col)
                            ELSE PostDefault(col)],
                 nulls |-> PostRequired \ KwNames(kwargs)])

\* db.session.commit() of new rows: the INSERT fails on a NULL in a NOT NULL
\* column
CommitPosts(news) ==
    IF \E i \in DOMAIN news : news[i].nulls # {}
    THEN Raise("IntegrityError", <<"NOT NULL constraint failed">>)
    ELSE Ret([i \in DOMAIN news |-> news[i].row])

\* SocialMediaService.__init__: one adapter object per key, each with the
\* attributes its own __init__ assigns
ConstructedPlatforms ==
    (youtube :> [class |-> "YouTubeService",
                 api_base |-> "https://www.googleapis.com/youtube/v3",
                 upload_scope |-> "https://www.googleapis.com/auth/youtube.upload"])
    @@ (instagram :> [class |-> "InstagramService",
                      api_base |-> "https://graph.instagram.com",
                      api_version |-> "v23.0"])
    @@ (facebook :> [class |-> "FacebookService",
                     api_base |-> "https://graph.facebook.com",
                     api_version |-> "v23.0"])
    @@ (tiktok :> [class |-> "TikTokService",
                   api_base |-> "https://open.tiktokapis.com",
                   api_version |-> "v2"])

\* The request threads of the server that serve dispatcher calls
Threads == {1, 2}

Idle ==
    [pc |-> "idle", req |-> [op |-> "none"],
     adapter |-> [class |-> "none"],
     result |-> [tag |-> "none"], overlapped |-> FALSE]

vars ==
    <<media, posts, nextMediaId, nextPostId, last, remembered, self_platforms,
      threads, api_key>>

NoCall == [tag |-> "none"]

\* built: the request data the adapter built in its local variables;
\* attempt: the keyword arguments of each SocialMediaPost(...) call the
\* handler made; created: the ids of the rows it committed
Call(op, req, r, created) ==
    [op |-> op, req |-> req, http |-> r.http, body |-> r.body,
     outcome |-> r.d.outcome, calls |-> r.d.calls, built |-> r.d.built,
     attempt |-> r.attempt, created |-> created]

NoDispatch == [outcome |-> NoCall, calls |-> <<>>, built |-> <<>>]

\* The tables, the dispatcher and the request threads after start-up
Constructed ==
    /\ media = [i \in {} |-> 0]
    /\ posts = [i \in {} |-> 0]
    /\ nextMediaId = 1
    /\ nextPostId = 1
    /\ last = [op |-> "init", req |-> << >>, http |-> 0, body |-> << >>,
               outcome |-> NoCall, calls |-> << >>, built |-> << >>,
               attempt |-> << >>,
               created |-> {}]
    /\ remembered = NoCall
    /\ self_platforms = ConstructedPlatforms
    /\ threads = [t \in Threads |-> Idle]

\* A deployment without OPENAI_API_KEY
Init == Constructed /\ api_key = None

\* ------------------------------------------------------------------------
\* Route helpers (src/src/routes/media.py)
\* ------------------------------------------------------------------------
\* What a handler does: its response, its dispatcher call, the constructor
\* calls it made and the rows it committed
Resp(http, body, d, rows) ==
    [http |-> http, body |-> body, d |-> d, attempt |-> << >>, rows |-> rows]

Attempted(resp, kwargsSeq) == [resp EXCEPT !.attempt = kwargsSeq]

ErrorBody(pieces) == [error |-> pieces]

\* get_or_404 on a missing row: werkzeug's NotFound response
NotFound == Resp(404, ErrorBody(<<"Not Found">>), NoDispatch, << >>)

\* scheduled_time.replace('Z', '+00:00') on the pieces of the text
ReplaceZ(s) == [i \in DOMAIN s |-> IF s[i] = "Z" THEN "+00:00" ELSE s[i]]

\* The wall clock texts the model's requests use, with their epoch seconds
StampSecs == [stamp \in {"2026-11-05T12:00:00"} |-> 1793880000]

\* datetime.fromisoformat(text)
FromIsoFormat(s) ==
    IF /\ Len(s) \in {1, 2}
       /\ s[1] \in DOMAIN StampSecs
       /\ Len(s) = 2 => s[2] = "+00:00"
    THEN Ret([t |-> "datetime",
              v |-> [stamp |-> s[1], secs |-> StampSecs[s[1]], micro |-> 0,
                     aware |-> Len(s) = 2]])
    ELSE Raise("ValueError", <<"Invalid isoformat string">>)

\* datetime.fromisoformat(scheduled_time.replace('Z', '+00:00'))
ParseScheduledTime(x) ==
    IF x.t = "str" THEN FromIsoFormat(ReplaceZ(x.v))
    ELSE NoAttribute(x, "replace")

\* json.dumps(list of str)
JsonDumps(xs) == [json |-> xs]

\* The rows after inserting rows with the next autoincrement ids
Insert(table, nextId, rows) ==
    [i \in DOMAIN table \cup {nextId + k - 1 : k \in DOMAIN rows} |->
        IF i \in DOMAIN table THEN table[i] ELSE rows[i - nextId + 1]]

\* The rows of table other than those in ids
Remove(table, ids) == [i \in DOMAIN table \ ids |-> table[i]]

\* ------------------------------------------------------------------------
\* POST /media/upload-to-platform
\* ------------------------------------------------------------------------
\* result.get('post_id') or result.get('video_id') or result.get('media_id')
UploadPlatformPostId(result) ==
    PyOr(PyOr(DictGet(result, "post_id", None),
              DictGet(result, "video_id", None)),
         DictGet(result, "media_id", None))

\* The keywords of the SocialMediaPost built from a successful result
UploadKwargs(media_file, media_file_id, platform, metadata, result) ==
    << <<"user_id", media_file.user_id>>,
       <<"media_file_id", media_file_id>>,
       <<"platform", platform.v>>,
       <<"title", MetaGet(metadata, "title", "").value>>,
       <<"description", MetaGet(metadata, "description", "").value>>,
       <<"hashtags", JsonDumps(MetaGet(metadata, "hashtags", << >>).value)>>,
       <<"status", "published">>,
       <<"platform_post_id", UploadPlatformPostId(result)>>,
       <<"platform_url", DictGet(result, "url", << >>)>>,
       <<"published_at", "utcnow()">> >>

\* The part of a handler after a successful result: build the row, add it
\* and commit; an exception is answered by the handler's except clause
Persist(kwargs, d, failed, platform, result) ==
    LET post == NewPost(kwargs)
        committed == CommitPosts(<<post.value>>)
    IN Attempted(
         CASE post.tag = "raise" ->
                Resp(500, ErrorBody(<<failed>> \o post.msg), d, << >>)
           [] post.tag = "return" /\ committed.tag = "raise" ->
                Resp(500, ErrorBody(<<failed>> \o committed.msg), d, << >>)
           [] OTHER ->
                Resp(200, [success |-> TRUE, platform |-> PyStr(platform),
                           result |-> result, post_id |-> nextPostId],
                     d, committed.value),
         <<kwargs>>)

ResultSucceeded_Always(result) == TRUE

\* if result['success']: of upload_to_platform and schedule_platform_upload
ResultSucceeded(result) == result.success

UploadToPlatformHandler(media_file_id, platform, token, metadata) ==
    IF ~(media_file_id # 0 /\ Truthy(platform) /\ token # "")
    THEN Resp(400, ErrorBody(<<"media_file_id, platform, and access_token are required">>),
              NoDispatch, << >>)
    ELSE IF media_file_id \notin DOMAIN media THEN NotFound
    ELSE LET media_file == media[media_file_id]
             d == ServiceUploadToPlatform(platform, media_file.file_path,
                                          metadata, token)
         IN IF d.outcome.tag = "raise"
            THEN Resp(500, ErrorBody(<<"Upload failed: ">> \o d.outcome.msg), d, << >>)
            ELSE IF ResultSucceeded(d.outcome.value)
            THEN IF MetaGet(metadata, "title", "").tag = "raise"
                 THEN Resp(500, ErrorBody(<<"Upload failed: ">>
                                  \o MetaGet(metadata, "title", "").msg), d, << >>)
                 ELSE
                 Persist(UploadKwargs(media_file, media_file_id, platform,
                                      metadata, d.outcome.value),
                         d, "Upload failed: ", platform, d.outcome.value)
            ELSE Resp(400, d.outcome.value, d, << >>)

\* ------------------------------------------------------------------------
\* POST /media/schedule-platform-upload
\* ------------------------------------------------------------------------
ScheduleKwargs(media_file, media_file_id, platform, metadata, scheduled_datetime, result) ==
    << <<"user_id", media_file.user_id>>,
       <<"media_file_id", media_file_id>>,
       <<"platform", platform.v>>,
       <<"title", MetaGet(metadata, "title", "").value>>,
       <<"description", MetaGet(metadata, "description", "").value>>,
       <<"hashtags", JsonDumps(MetaGet(metadata, "hashtags", << >>).value)>>,
       <<"status", "scheduled">>,
       <<"scheduled_time", scheduled_datetime.v>>,
       <<"platform_post_id", DictGet(result, "scheduled_id", None)>> >>

SchedulePlatformUploadHandler(media_file_id, platform, token, metadata, scheduled_time) ==
    IF ~(media_file_id # 0 /\ Truthy(platform) /\ token # "" /\ Truthy(scheduled_time))
    THEN Resp(400, ErrorBody(<<"media_file_id, platform, access_token, and scheduled_time are required">>),
              NoDispatch, << >>)
    ELSE IF media_file_id \notin DOMAIN media THEN NotFound
    ELSE LET media_file == media[media_file_id]
             parsed == ParseScheduledTime(scheduled_time)
             d == ServiceScheduleUpload(platform, media_file.file_path,
                                        metadata, token, parsed.value)
         IN IF parsed.tag = "raise"
            THEN Resp(500, ErrorBody(<<"Scheduling failed: ">> \o parsed.msg),
                      NoDispatch, << >>)
            ELSE IF d.outcome.tag = "raise"
            THEN Resp(500, ErrorBody(<<"Scheduling failed: ">> \o d.outcome.msg), d, << >>)
            ELSE IF ResultSucceeded(d.outcome.value)
            THEN IF MetaGet(metadata, "title", "").tag = "raise"
                 THEN Resp(500, ErrorBody(<<"Scheduling failed: ">>
                                  \o MetaGet(metadata, "title", "").msg), d, << >>)
                 ELSE
                 Persist(ScheduleKwargs(media_file, media_file_id, platform,
                                        metadata, parsed.value, d.outcome.value),
                         d, "Scheduling failed: ", platform, d.outcome.value)
            ELSE Resp(400, d.outcome.value, d, << >>)

\* ------------------------------------------------------------------------
\* POST /media/schedule-post
\* ------------------------------------------------------------------------
\* platform.lower()
PlatformLower(platform) ==
    IF platform.t = "str" THEN Ret(Lower(platform.v))
    ELSE NoAttribute(platform, "lower")

SchedulePostKwargs(user_id, media_file_id, platform, title, description, hashtags, scheduled_datetime) ==
    << <<"user_id", user_id>>,
       <<"media_file_id", media_file_id>>,
       <<"platform", PlatformLower(platform).value>>,
       <<"title", title>>,
       <<"description", description>>,
       <<"hashtags", JsonDumps(hashtags)>>,
       <<"scheduled_time", scheduled_datetime.v>> >>

AccessDenied_Never(media_file, user_id) == FALSE

\* if media_file.user_id != user_id
AccessDenied(media_file, user_id) == media_file.user_id # user_id

SchedulePostHandler(user_id, media_file_id, platforms, title, description, hashtags, scheduled_time) ==
    IF ~(user_id # 0 /\ media_file_id # 0 /\ platforms # << >> /\ Truthy(scheduled_time))
    THEN Resp(400, ErrorBody(<<"user_id, media_file_id, platforms, and scheduled_time are required">>),
              NoDispatch, << >>)
    ELSE IF user_id \notin Users
    THEN Resp(404, ErrorBody(<<"User not found">>), NoDispatch, << >>)
    ELSE IF media_file_id \notin DOMAIN media
    THEN Resp(404, ErrorBody(<<"Media file not found">>), NoDispatch, << >>)
    ELSE IF AccessDenied(media[media_file_id], user_id)
    THEN Resp(403, ErrorBody(<<"Access denied to media file">>), NoDispatch, << >>)
    ELSE LET parsed == ParseScheduledTime(scheduled_time)
             badPlatform == {i \in DOMAIN platforms :
                                PlatformLower(platforms[i]).tag = "raise"}
             firstBad == CHOOSE i \in badPlatform : \A j \in badPlatform : i <= j
             built == IF badPlatform = {} THEN Len(platforms) ELSE firstBad - 1
             kwargs == [i \in 1 .. built |->
                          SchedulePostKwargs(user_id, media_file_id, platforms[i],
                                             title, description, hashtags,
                                             parsed.value)]
             committed == CommitPosts([i \in DOMAIN platforms |->
                                          NewPost(kwargs[i]).value])
         IN CASE parsed.tag = "raise" ->
                   Resp(500, ErrorBody(<<"Failed to schedule post: ">> \o parsed.msg),
                        NoDispatch, << >>)
              [] parsed.tag = "return" /\ badPlatform # {} ->
                   Attempted(
                     Resp(500, ErrorBody(<<"Failed to schedule post: ">> \o
                                         PlatformLower(platforms[firstBad]).msg),
                          NoDispatch, << >>),
                     kwargs)
              [] OTHER ->
                   Attempted(
                     IF committed.tag = "raise"
                     THEN Resp(500, ErrorBody(<<"Failed to schedule post: ">> \o committed.msg),
                               NoDispatch, << >>)
                     ELSE Resp(201, [message |-> <<"Successfully scheduled ",
                                                   Len(platforms), " posts">>,
                                     posts |-> committed.value],
                               NoDispatch, committed.value),
                     kwargs)

\* ------------------------------------------------------------------------
\* DELETE /media/posts/<post_id>, POST /media/upload, DELETE /media/files/<id>
\* ------------------------------------------------------------------------
Cancellable_Any(status) == TRUE

\* The status cancel_post requires of the row
Cancellable(status) == status = "scheduled"

\* The response of cancel_post and the table after it
CancelPostHandler(post_id) ==
    IF post_id \notin DOMAIN posts
    THEN [resp |-> NotFound, table |-> posts]
    ELSE IF ~Cancellable(posts[post_id].status)
    THEN [resp |-> Resp(400, ErrorBody(<<"Can only cancel scheduled posts">>),
                        NoDispatch, << >>),
          table |-> posts]
    ELSE [resp |-> Resp(200, [message |-> <<"Post cancelled successfully">>],
                        NoDispatch, << >>),
          table |-> [posts EXCEPT ![post_id].status = "cancelled"]]

\* filename.rsplit('.', 1)[1].lower()
Extension(filename) == Lower(LastDotSegment(filename))

ImageExtensions == {<<"p","n","g">>, <<"j","p","g">>, <<"j","p","e","g">>, <<"g","i","f">>}

StoredVideoExtensions == VideoExtensions \cup {<<"w","m","v">>}

\* ALLOWED_EXTENSIONS
AllowedExtensions == ImageExtensions \cup StoredVideoExtensions

allowed_file(filename) ==
    /\ \E i \in DOMAIN filename : filename[i] = "."
    /\ Extension(filename) \in AllowedExtensions

get_file_type(filename) ==
    CASE Extension(filename) \in ImageExtensions -> "image"
      [] Extension(filename) \in StoredVideoExtensions -> "video"
      [] OTHER -> "unknown"

\* os.path.join(upload_path, f"{uuid.uuid4().hex}.{file_extension}")
StoredPath(filename) ==
    <<"u","p","l","o","a","d","s","/","f",".">> \o Extension(filename)

\* The response of upload_media and the MediaFile rows it adds. The model's
\* file names are left unchanged by secure_filename.
UploadMediaHandler(user_id, filename) ==
    IF user_id = 0
    THEN Resp(400, ErrorBody(<<"user_id is required">>), NoDispatch, << >>)
    ELSE IF filename = << >>
    THEN Resp(400, ErrorBody(<<"No file selected">>), NoDispatch, << >>)
    ELSE IF user_id \notin Users
    THEN Resp(404, ErrorBody(<<"User not found">>), NoDispatch, << >>)
    ELSE IF allowed_file(filename)
    THEN Resp(201, [id |-> nextMediaId], NoDispatch,
              << [user_id |-> user_id,
                  file_path |-> StoredPath(filename),
                  file_type |-> get_file_type(filename)] >>)
    ELSE Resp(400, ErrorBody(<<"Invalid file type">>), NoDispatch, << >>)

CascadePosts_None(file_id) == {}

\* MediaFile.posts has cascade='all, delete-orphan': deleting the file
\* deletes the posts that reference it
CascadePosts(file_id) == {i \in DOMAIN posts : posts[i].media_file_id = file_id}

\* ------------------------------------------------------------------------
\* Requests
\* ------------------------------------------------------------------------
Str(chars) == [t |-> "str", v |-> chars]

PyNone == [t |-> "None", v |-> << >>]

\* A dict value keeps its items in d
Dict(d) == [t |-> "dict", v |-> << >>, d |-> d]

YouTubeMixed == <<"Y","o","u","T","u","b","e">>

TikTokUpper == <<"T","I","K","T","O","K">>

myspace == <<"m","y","s","p","a","c","e">>

\* Platform arguments of the direct dispatcher calls
PlatformInputs ==
    {Str(youtube), Str(instagram), Str(facebook), Str(tiktok),
     Str(YouTubeMixed), Str(TikTokUpper), Str(myspace), Str(<< >>), PyNone,
     [t |-> "list", v |-> <<youtube>>]}

GoodMetadata == Dict([title |-> "T", description |-> "D"])

MetadataInputs == {GoodMetadata, Dict([page_id |-> "page1"]), Str(<<"x">>)}

TokenInputs == {"tok", ""}

Moment ==
    [stamp |-> "2026-11-05T12:00:00", secs |-> 1793880000, micro |-> 0,
     aware |-> TRUE]

\* Half a second later
FracMoment ==
    [stamp |-> "2026-11-05T12:00:00.500000", secs |-> 1793880000,
     micro |-> 500000, aware |-> TRUE]

\* The same wall clock without a UTC offset
NaiveMoment == [Moment EXCEPT !.aware = FALSE]

ScheduledTimeInputs ==
    {[t |-> "datetime", v |-> Moment], [t |-> "datetime", v |-> NaiveMoment],
     [t |-> "datetime", v |-> FracMoment], PyNone}

GoodTimeText == Str(<<"2026-11-05T12:00:00", "Z">>)

PathInputs ==
    {<<"a",".","m","p","4">>, <<"b",".","P","N","G">>, <<"c",".","M","O","V">>,
     <<"x",".","w","m","v">>, <<"n","o","e","x","t">>, <<"m","p","4">>}

UploadIdInputs == {"up1", "up2", ""}

MediaIdInputs == 0 .. MaxMedia

PostIdInputs == 1 .. MaxPosts

\* Requests of POST /media/upload: user 1 uploads; user 2 owns no file
UploadMediaRequests ==
    {[user_id |-> 1, filename |-> <<"a",".","m","p","4">>],
     [user_id |-> 0, filename |-> <<"a",".","m","p","4">>],
     [user_id |-> 3, filename |-> <<"a",".","m","p","4">>],
     [user_id |-> 1, filename |-> <<"d",".","t","x","t">>],
     [user_id |-> 1, filename |-> << >>]}

\* Requests of POST /media/upload-to-platform: every platform argument with
\* well-formed other fields, and one request per malformed field
UploadRequests ==
    {[media_file_id |-> m, platform |-> p, access_token |-> "tok",
      metadata |-> GoodMetadata] :
        m \in MediaIdInputs \ {0},
        p \in {Str(youtube), Str(instagram), Str(facebook), Str(tiktok),
               Str(YouTubeMixed), Str(myspace)}}
    \cup {[media_file_id |-> 0, platform |-> Str(youtube), access_token |-> "tok",
           metadata |-> GoodMetadata],
          [media_file_id |-> 1, platform |-> [t |-> "list", v |-> <<youtube>>],
           access_token |-> "tok", metadata |-> GoodMetadata],
          [media_file_id |-> 1, platform |-> Str(youtube), access_token |-> "",
           metadata |-> GoodMetadata],
          [media_file_id |-> 1, platform |-> Str(youtube), access_token |-> "tok",
           metadata |-> Str(<<"x">>)]}

\* Requests of POST /media/schedule-platform-upload
SchedulePlatformRequests ==
    {[media_file_id |-> m, platform |-> p, access_token |-> "tok",
      metadata |-> GoodMetadata, scheduled_time |-> GoodTimeText] :
        m \in MediaIdInputs \ {0},
        p \in {Str(youtube), Str(facebook), Str(myspace)}}
    \cup {[media_file_id |-> 1, platform |-> Str(facebook), access_token |-> "tok",
           metadata |-> GoodMetadata, scheduled_time |-> t] :
             t \in {Str(<<"tomorrow">>), Str(<<"2026-11-05T12:00:00">>), PyNone}}
    \cup {[media_file_id |-> 1, platform |-> Str(facebook), access_token |-> "tok",
           metadata |-> Str(<<"x">>), scheduled_time |-> GoodTimeText],
          [media_file_id |-> 1, platform |-> [t |-> "list", v |-> <<youtube>>],
           access_token |-> "tok", metadata |-> GoodMetadata,
           scheduled_time |-> GoodTimeText]}

\* Requests of POST /media/schedule-post
SchedulePostRequests ==
    {[user_id |-> 1, media_file_id |-> m, platforms |-> ps,
      scheduled_time |-> GoodTimeText] :
        m \in MediaIdInputs \ {0},
        ps \in {<<Str(YouTubeMixed)>>, <<Str(myspace)>>,
                <<Str(youtube), Str(myspace)>>, <<Str(youtube), PyNone>>}}
    \cup {[user_id |-> u, media_file_id |-> 1, platforms |-> <<Str(youtube)>>,
           scheduled_time |-> GoodTimeText] : u \in {0, 2, 3}}
    \cup {[user_id |-> 1, media_file_id |-> 0, platforms |-> <<Str(youtube)>>,
           scheduled_time |-> GoodTimeText],
          [user_id |-> 1, media_file_id |-> 1, platforms |-> << >>,
           scheduled_time |-> GoodTimeText],
          [user_id |-> 1, media_file_id |-> 1, platforms |-> <<Str(youtube)>>,
           scheduled_time |-> Str(<<"tomorrow">>)],
          [user_id |-> 1, media_file_id |-> 1, platforms |-> <<Str(youtube)>>,
           scheduled_time |-> PyNone]}

\* ------------------------------------------------------------------------
\* Actions: one per route handler
\* ------------------------------------------------------------------------
NewIds(nextId, rows) == {nextId + k - 1 : k \in DOMAIN rows}

RouteUploadToPlatform ==
    \E req \in UploadRequests :
        LET r == UploadToPlatformHandler(req.media_file_id, req.platform,
                                         req.access_token, req.metadata)
        IN /\ nextPostId + Len(r.rows) - 1 <= MaxPosts
           /\ posts' = Insert(posts, nextPostId, r.rows)
           /\ nextPostId' = nextPostId + Len(r.rows)
           /\ last' = Call("route.upload_to_platform",
                           [platform |-> req.platform,
                            media_file_id |-> req.media_file_id],
                           r, NewIds(nextPostId, r.rows))
           /\ UNCHANGED <<media, nextMediaId, remembered, self_platforms,
                        threads, api_key>>

RouteSchedulePlatformUpload ==
    \E req \in SchedulePlatformRequests :
        LET r == SchedulePlatformUploadHandler(req.media_file_id, req.platform,
                                               req.access_token, req.metadata,
                                               req.scheduled_time)
        IN /\ nextPostId + Len(r.rows) - 1 <= MaxPosts
           /\ posts' = Insert(posts, nextPostId, r.rows)
           /\ nextPostId' = nextPostId + Len(r.rows)
           /\ last' = Call("route.schedule_platform_upload",
                           [platform |-> req.platform],
                           r, NewIds(nextPostId, r.rows))
           /\ UNCHANGED <<media, nextMediaId, remembered, self_platforms,
                        threads, api_key>>

RouteSchedulePost ==
    \E req \in SchedulePostRequests :
        LET r == SchedulePostHandler(req.user_id, req.media_file_id, req.platforms,
                                     "T", "D", <<"#a">>, req.scheduled_time)
        IN /\ nextPostId + Len(r.rows) - 1 <= MaxPosts
           /\ posts' = Insert(posts, nextPostId, r.rows)
           /\ nextPostId' = nextPostId + Len(r.rows)
           /\ last' = Call("route.schedule_post",
                           [user_id |-> req.user_id],
                           r, NewIds(nextPostId, r.rows))
           /\ UNCHANGED <<media, nextMediaId, remembered, self_platforms,
                        threads, api_key>>

RouteCancelPost ==
    \E post_id \in PostIdInputs :
        LET r == CancelPostHandler(post_id)
        IN /\ posts' = r.table
           /\ last' = Call("route.cancel_post",
                           [post_id |-> post_id,
                            status |-> IF post_id \in DOMAIN posts
                                       THEN posts[post_id].status ELSE None],
                           r.resp, {})
           /\ UNCHANGED <<media, nextMediaId, nextPostId, remembered, self_platforms,
                        threads, api_key>>

RouteUploadMedia ==
    \E req \in UploadMediaRequests :
        LET r == UploadMediaHandler(req.user_id, req.filename)
        IN /\ nextMediaId + Len(r.rows) - 1 <= MaxMedia
           /\ media' = Insert(media, nextMediaId, r.rows)
           /\ nextMediaId' = nextMediaId + Len(r.rows)
           /\ last' = Call("route.upload_media", [user_id |-> req.user_id],
                           r, {})
           /\ UNCHANGED <<posts, nextPostId, remembered, self_platforms,
                        threads, api_key>>

\* upload_media with one file of each stored kind
RouteUploadStoredMedia ==
    \E user_id \in {1},
       filename \in {<<"a",".","m","p","4">>, <<"c",".","M","O","V">>,
                     <<"e",".","a","v","i">>, <<"x",".","w","m","v">>,
                     <<"b",".","P","N","G">>, <<"g",".","g","i","f">>,
                     <<"h",".","j","p","e","g">>, <<"j",".","j","p","g">>,
                     <<"V",".","M","P","4">>, <<"n","o","e","x","t">>} :
        LET r == UploadMediaHandler(user_id, filename)
        IN /\ nextMediaId + Len(r.rows) - 1 <= MaxMedia
           /\ media' = Insert(media, nextMediaId, r.rows)
           /\ nextMediaId' = nextMediaId + Len(r.rows)
           /\ last' = Call("route.upload_media", [user_id |-> user_id],
                           r, {})
           /\ UNCHANGED <<posts, nextPostId, remembered, self_platforms,
                          threads, api_key>>

\* The response of delete_media_file and the tables after it; removed is the
\* outcome of deleting the physical file
DeleteMediaFileHandler(file_id, removed) ==
    IF file_id \notin DOMAIN media
    THEN [resp |-> NotFound, media |-> media, posts |-> posts]
    ELSE IF removed.tag = "raise"
    THEN [resp |-> Resp(500, ErrorBody(<<"Failed to delete file: ">> \o removed.msg),
                        NoDispatch, << >>),
          media |-> media, posts |-> posts]
    ELSE [resp |-> Resp(204, << >>, NoDispatch, << >>),
          media |-> Remove(media, {file_id}),
          posts |-> Remove(posts, CascadePosts(file_id))]

RouteDeleteMediaFile ==
    \E file_id \in MediaIdInputs \ {0}, removed \in {Ret(None),
                      Raise("PermissionError",
                            <<"[Errno 13] Permission denied">>)} :
        LET r == DeleteMediaFileHandler(file_id, removed)
        IN /\ media' = r.media
           /\ posts' = r.posts
           /\ last' = Call("route.delete_media_file",
                           [file_id |-> file_id,
                            statuses |-> {posts[i].status :
                                            i \in CascadePosts(file_id)}],
                           r.resp, {})
           /\ UNCHANGED <<nextMediaId, nextPostId, remembered, self_platforms,
                        threads, api_key>>

Next ==
    \/ RouteUploadMedia
    \/ RouteDeleteMediaFile
    \/ RouteSchedulePost
    \/ RouteCancelPost
    \/ RouteUploadToPlatform
    \/ RouteSchedulePlatformUpload

Spec == Init /\ [][Next]_vars

\* Files of every stored kind, published through upload_to_platform
NextStored ==
    \/ RouteUploadStoredMedia
    \/ RouteUploadToPlatform

SpecStored == Init /\ [][NextStored]_vars

\* ------------------------------------------------------------------------
\* Actions: direct calls of the dispatcher (SocialMediaService)
\* ------------------------------------------------------------------------
\* Arguments of the direct upload_to_platform calls: every platform,
\* metadata and credential with one path, and every path with each platform
\* and well-formed other arguments
ServiceUploadRequests ==
    {[platform |-> platform, path |-> <<"a",".","m","p","4">>,
      metadata |-> metadata, token |-> token] :
        platform \in PlatformInputs, metadata \in MetadataInputs,
        token \in TokenInputs}
    \cup {[platform |-> Str(key), path |-> path,
           metadata |-> GoodMetadata, token |-> "tok"] :
             key \in PlatformKeys, path \in PathInputs}

CallUploadToPlatform ==
    \E req \in ServiceUploadRequests :
        /\ last' = Call("upload_to_platform", req,
                        Resp(0, << >>,
                             ServiceUploadToPlatform(req.platform, req.path,
                                                     req.metadata, req.token),
                             << >>),
                        {})
        /\ remembered' = IF remembered = NoCall THEN remembered
                         ELSE [remembered EXCEPT !.between = TRUE]
        /\ UNCHANGED <<media, posts, nextMediaId, nextPostId, self_platforms,
                        threads, api_key>>

CallScheduleUpload ==
    \E platform \in PlatformInputs, path \in {<<"a",".","m","p","4">>},
       metadata \in MetadataInputs, token \in TokenInputs,
       scheduled_time \in ScheduledTimeInputs :
        /\ last' = Call("schedule_upload",
                        [platform |-> platform, path |-> path,
                         metadata |-> metadata, token |-> token,
                         scheduled_time |-> scheduled_time],
                        Resp(0, << >>,
                             ServiceScheduleUpload(platform, path, metadata, token,
                                                   scheduled_time), << >>),
                        {})
        /\ remembered' = IF remembered = NoCall THEN remembered
                         ELSE [remembered EXCEPT !.between = TRUE]
        /\ UNCHANGED <<media, posts, nextMediaId, nextPostId, self_platforms,
                        threads, api_key>>

CallGetUploadStatus ==
    \E platform \in PlatformInputs, upload_id \in UploadIdInputs,
       token \in TokenInputs :
        /\ last' = Call("get_upload_status",
                        [platform |-> platform, upload_id |-> upload_id,
                         token |-> token],
                        Resp(0, << >>, ServiceGetUploadStatus(platform, upload_id, token), << >>),
                        {})
        /\ remembered' = IF remembered = NoCall THEN remembered
                         ELSE [remembered EXCEPT !.between = TRUE]
        /\ UNCHANGED <<media, posts, nextMediaId, nextPostId, self_platforms,
                        threads, api_key>>

\* The requests whose result a caller keeps for a later comparison
RememberedStatusRequests ==
    {[platform |-> platform, upload_id |-> "up1", token |-> token] :
        platform \in {Str(youtube), Str(tiktok), Str(myspace)},
        token \in TokenInputs}

\* get_upload_status called by a caller that keeps the result
CallGetUploadStatusKept ==
    \E req \in RememberedStatusRequests :
        LET d == ServiceGetUploadStatus(req.platform, req.upload_id, req.token)
        IN /\ last' = Call("get_upload_status", req, Resp(0, << >>, d, << >>), {})
           /\ remembered' = [tag |-> "kept", req |-> req, outcome |-> d.outcome,
                             between |-> FALSE]
           /\ UNCHANGED <<media, posts, nextMediaId, nextPostId, self_platforms,
                        threads, api_key>>

NextService ==
    \/ CallUploadToPlatform
    \/ CallScheduleUpload
    \/ CallGetUploadStatus

SpecService == Init /\ [][NextService]_vars

\* The dispatcher called by a caller that keeps one status result
NextStatus ==
    \/ CallUploadToPlatform
    \/ CallScheduleUpload
    \/ CallGetUploadStatus
    \/ CallGetUploadStatusKept

SpecStatus == Init /\ [][NextStatus]_vars

\* ------------------------------------------------------------------------
\* ViralTimeService
\* ------------------------------------------------------------------------
\* A naive datetime of datetime.now() is
\* [day, hour, minute, second, microsecond], day counting calendar days.
Slot(day, time, engagement) ==
    [day |-> day, time |-> time, engagement |-> engagement]

\* optimal_times of get_optimal_times
OptimalTimesTable ==
    [key \in PlatformKeys |->
       CASE key = youtube ->
              << Slot("weekdays", "14:00-16:00", "high"),
                 Slot("weekdays", "20:00-22:00", "high"),
                 Slot("weekend", "09:00-11:00", "medium") >>
         [] key = instagram ->
              << Slot("weekdays", "11:00-13:00", "high"),
                 Slot("weekdays", "19:00-21:00", "high"),
                 Slot("weekend", "10:00-12:00", "medium") >>
         [] key = facebook ->
              << Slot("weekdays", "13:00-15:00", "high"),
                 Slot("weekdays", "19:00-21:00", "high"),
                 Slot("weekend", "12:00-14:00", "medium") >>
         [] key = tiktok ->
              << Slot("weekdays", "06:00-10:00", "high"),
                 Slot("weekdays", "19:00-21:00", "high"),
                 Slot("weekend", "07:00-09:00", "medium") >>]

GetOptimalTimes_Fallback(platform, timezone) ==
    IF ~Hashable(platform) THEN UnhashableType(platform)
    ELSE IF InPlatforms(platform) THEN Ret(OptimalTimesTable[platform.v])
    ELSE Ret(OptimalTimesTable[youtube])

GetOptimalTimes_AnyCase(platform, timezone) ==
    IF ~Hashable(platform) THEN UnhashableType(platform)
    ELSE IF platform.t = "str" /\ Lower(platform.v) \in PlatformKeys
    THEN Ret(OptimalTimesTable[Lower(platform.v)])
    ELSE Ret(<< >>)

\* ViralTimeService.get_optimal_times: optimal_times.get(platform, [])
GetOptimalTimes(platform, timezone) ==
    IF ~Hashable(platform) THEN UnhashableType(platform)
    ELSE IF InPlatforms(platform) THEN Ret(OptimalTimesTable[platform.v])
    ELSE Ret(<< >>)

\* dt + timedelta(hours=hours)
AddHours(dt, hours) ==
    [dt EXCEPT !.day = @ + (dt.hour + hours) \div 24,
               !.hour = (dt.hour + hours) % 24]

AddDays_SameDay(dt, days) == dt

\* dt + timedelta(days=days)
AddDays(dt, days) == [dt EXCEPT !.day = @ + days]

\* a <= b on datetimes
DateTimeLeq(a, b) ==
    LET fields == <<"day", "hour", "minute", "second", "microsecond">>
        differ == {i \in DOMAIN fields : a[fields[i]] # b[fields[i]]}
        first == CHOOSE i \in differ : \A j \in differ : i <= j
    IN differ = {} \/ a[fields[first]] < b[fields[first]]

NeedsAdjusting_Strict(hour) == hour <= 11 \/ hour >= 21

\* if hour < 11 or hour > 21:
NeedsAdjusting(hour) == hour < 11 \/ hour > 21

\* ViralTimeService.suggest_next_optimal_time with datetime.now() = now
SuggestNextOptimalTime(platform, timezone, now) ==
    LET optimal_times == GetOptimalTimes(platform, timezone)
        suggested_time == AddHours(now, 2)
        morning == [suggested_time EXCEPT !.hour = 11, !.minute = 0,
                                          !.second = 0, !.microsecond = 0]
    IN IF optimal_times.tag = "raise" THEN optimal_times
       ELSE IF optimal_times.value = << >> THEN Ret(AddHours(now, 2))
       ELSE IF NeedsAdjusting(suggested_time.hour)
       THEN IF DateTimeLeq(morning, now) THEN Ret(AddDays(morning, 1))
            ELSE Ret(morning)
       ELSE Ret(suggested_time)

\* Arguments of the ViralTimeService calls
ViralPlatformInputs ==
    {Str(youtube), Str(instagram), Str(facebook), Str(tiktok),
     Str(YouTubeMixed), Str(myspace), Str(<< >>), PyNone,
     [t |-> "list", v |-> <<youtube>>]}

TimezoneInputs == {"UTC", "Asia/Karachi"}

\* Values of datetime.now(): every hour of a day, on the hour, on the half
\* hour and one microsecond before the next hour
NowInputs ==
    {[day |-> 0, hour |-> hour, minute |-> part[1], second |-> part[2],
      microsecond |-> part[3]] :
        hour \in 0 .. 23,
        part \in {<<0, 0, 0>>, <<30, 0, 0>>, <<59, 59, 999999>>}}

\* A call that involves no dispatcher
Plain(outcome) == [outcome |-> outcome, calls |-> << >>, built |-> << >>]

CallGetOptimalTimes ==
    \E platform \in ViralPlatformInputs, timezone \in TimezoneInputs :
        /\ last' = Call("get_optimal_times",
                        [platform |-> platform, timezone |-> timezone],
                        Resp(0, << >>, Plain(GetOptimalTimes(platform, timezone)),
                             << >>),
                        {})
        /\ UNCHANGED <<media, posts, nextMediaId, nextPostId, remembered, self_platforms,
                        threads, api_key>>

CallSuggestNextOptimalTime ==
    \E platform \in ViralPlatformInputs, timezone \in TimezoneInputs,
       now \in NowInputs :
        /\ last' = Call("suggest_next_optimal_time",
                        [platform |-> platform, timezone |-> timezone,
                         now |-> now],
                        Resp(0, << >>,
                             Plain(SuggestNextOptimalTime(platform, timezone, now)),
                             << >>),
                        {})
        /\ UNCHANGED <<media, posts, nextMediaId, nextPostId, remembered, self_platforms,
                        threads, api_key>>

NextViral ==
    \/ CallGetOptimalTimes
    \/ CallSuggestNextOptimalTime

SpecViral == Init /\ [][NextViral]_vars

\* ------------------------------------------------------------------------
\* Properties
\* ------------------------------------------------------------------------
FourPlatforms == {youtube, instagram, facebook, tiktok}

DispatcherOps == {"upload_to_platform", "schedule_upload", "get_upload_status"}

\* A text: a sequence of str pieces
IsText(x) == \A i \in DOMAIN x : x[i] \in STRING

\* The call returned a result with success = true
Succeeded(call) == call.outcome.tag = "return" /\ call.outcome.value.success

\* The identifier the adapter issued, under whichever name the platform uses
AdapterIssuedId(result) ==
    LET keys == {"video_id", "media_id", "post_id", "publish_id"} \cap DOMAIN result
    IN IF keys = {} THEN None ELSE result[CHOOSE k \in keys : TRUE]

\* C1: a dispatcher call whose platform name is not a key of the adapter
\* mapping returns exactly {success: false, error: "Unsupported platform:
\* <name as passed>"} and invokes no adapter method.
C1_UnsupportedPlatform ==
    (/\ last.op \in DispatcherOps
     /\ last.req.platform.t = "str"
     /\ last.req.platform.v \notin FourPlatforms)
    => /\ last.outcome.tag = "return"
       /\ last.outcome.value =
            [success |-> FALSE,
             error |-> <<"Unsupported platform: ">> \o last.req.platform.v]
       /\ last.calls = << >>

C1_Witness ==
    /\ last.op = "schedule_upload"
    /\ last.req.platform = Str(YouTubeMixed)
    /\ last.outcome.tag = "return"
    /\ ~last.outcome.value.success
    /\ last.calls = << >>

\* C2: upload_to_platform with any of the four platform names in any letter
\* case, a non-empty credential and well-formed metadata returns success =
\* true with a non-empty platform-issued id and the lowercased name as
\* platform.
C2_CaseInsensitiveUpload ==
    (/\ last.op = "upload_to_platform"
     /\ last.req.platform.t = "str"
     /\ Lower(last.req.platform.v) \in FourPlatforms
     /\ last.req.token # ""
     /\ last.req.metadata.t = "dict")
    => /\ Succeeded(last)
       /\ AdapterIssuedId(last.outcome.value) \notin {None, ""}
       /\ last.outcome.value.platform = Lower(last.req.platform.v)

\* C3: a row with status 'published' is built or stored only by a call whose
\* adapter result had success = true.
C3_PublishedOnlyAfterSuccess ==
    [][/\ \A i \in DOMAIN last'.attempt :
            ("status" \in KwNames(last'.attempt[i])
               /\ KwValue(last'.attempt[i], "status") = "published")
            => Succeeded(last')
       /\ \A i \in DOMAIN posts' :
            (posts'[i].status = "published"
               /\ (i \notin DOMAIN posts \/ posts[i].status # "published"))
            => Succeeded(last')]_vars

C3_Witness ==
    /\ last.op = "route.upload_to_platform"
    /\ Succeeded(last)
    /\ last.outcome.value.platform = instagram
    /\ \E i \in DOMAIN last.attempt :
          KwValue(last.attempt[i], "status") = "published"

\* C4: cancel_post changes a row only from 'scheduled' to 'cancelled'; for a
\* row in any other status it answers 400 'Can only cancel scheduled posts'
\* and leaves the row unchanged; no other step changes an existing row.
C4_CancelOnlyScheduled ==
    [][\A i \in DOMAIN posts \cap DOMAIN posts' :
          /\ posts'[i] # posts[i]
             => /\ posts[i].status = "scheduled"
                /\ posts'[i] = [posts[i] EXCEPT !.status = "cancelled"]
                /\ last'.op = "route.cancel_post"
                /\ last'.req.post_id = i
                /\ last'.http = 200
          /\ (/\ last'.op = "route.cancel_post"
              /\ last'.req.post_id = i
              /\ posts[i].status # "scheduled")
             => /\ posts'[i] = posts[i]
                /\ last'.http = 400
                /\ last'.body = [error |-> <<"Can only cancel scheduled posts">>]]_vars

C4_Witness ==
    /\ last.op = "route.cancel_post"
    /\ last.req.status = "cancelled"
    /\ last.http = 400
    /\ posts[last.req.post_id].status = "cancelled"

\* C5: a row whose status is 'scheduled' carries no platform-issued id: the
\* id is set only at the published transition.
C5_ScheduledRowHasNoPlatformId ==
    /\ \A i \in DOMAIN posts :
          posts[i].status = "scheduled" => posts[i].post_id = None
    /\ \A i \in DOMAIN last.attempt :
          ("status" \in KwNames(last.attempt[i])
             /\ KwValue(last.attempt[i], "status") = "scheduled")
          => \/ "platform_post_id" \notin KwNames(last.attempt[i])
             \/ KwValue(last.attempt[i], "platform_post_id") = None

\* C6: every row of the post store has a platform in the fixed set.
C6_OnlySupportedPlatformsStored ==
    \A i \in DOMAIN posts : posts[i].platform \in FourPlatforms

\* C7: no dispatcher call terminates by raising; a failure is returned as
\* {success: false, error: <string>}.
C7_DispatcherNeverRaises ==
    last.op \in DispatcherOps
    => /\ last.outcome.tag = "return"
       /\ ~last.outcome.value.success
          => /\ "error" \in DOMAIN last.outcome.value
             /\ IsText(last.outcome.value.error)

\* C8: no adapter operation lets an exception escape: each adapter call
\* returns, a failure as {success: false, error: <message>}.
C8_AdaptersNeverRaise ==
    \A i \in DOMAIN last.calls : last.calls[i].outcome.tag = "return"

\* C9: every result a dispatcher operation returns has a boolean success;
\* with success false it has a string error, with success true it has a
\* platform among the four and no error.
C9_UniformResultShape ==
    (last.op \in DispatcherOps /\ last.outcome.tag = "return")
    => LET result == last.outcome.value
       IN /\ "success" \in DOMAIN result
          /\ result.success \in BOOLEAN
          /\ ~result.success
             => "error" \in DOMAIN result /\ IsText(result.error)
          /\ result.success
             => /\ "platform" \in DOMAIN result
                /\ result.platform \in FourPlatforms
                /\ "error" \notin DOMAIN result

C9_Witness ==
    /\ last.op = "schedule_upload"
    /\ last.req.platform = Str(tiktok)
    /\ last.req.scheduled_time = PyNone
    /\ last.outcome.tag = "return"
    /\ ~last.outcome.value.success
    /\ Len(last.calls) = 1

\* C10: after a successful immediate publish through the upload_to_platform
\* route the platform-issued id given to the record is the identifier the
\* adapter returned, and is non-empty, for all four platforms.
C10_RecordIdIsAdapterId ==
    (last.op = "route.upload_to_platform" /\ Succeeded(last))
    => /\ last.attempt # << >>
       /\ \A i \in DOMAIN last.attempt :
             /\ KwValue(last.attempt[i], "platform_post_id")
                  = AdapterIssuedId(last.outcome.value)
             /\ KwValue(last.attempt[i], "platform_post_id") \notin {None, ""}

\* C11: on the immediate publish path (the upload_to_platform route) the
\* record reflects the adapter's outcome: a result with success = true gives
\* a record with status 'published', a result with success = false gives a
\* record with status 'failed' carrying the error text.
C11_RecordReflectsOutcome ==
    (last.op = "route.upload_to_platform" /\ Len(last.calls) = 1)
    => LET result == last.calls[1].outcome.value
           built == {KwValue(last.attempt[i], "status") : i \in DOMAIN last.attempt}
                    \cup {posts[i].status : i \in last.created}
       IN /\ result.success => built = {"published"}
          /\ ~result.success
             => /\ built = {"failed"}
                /\ \E i \in DOMAIN last.attempt :
                      /\ "error_message" \in KwNames(last.attempt[i])
                      /\ KwValue(last.attempt[i], "error_message") = result.error

\* The platform-issued ids a result carries
ResultIds(result) ==
    {result[k] : k \in {"video_id", "media_id", "post_id", "publish_id",
                        "scheduled_id"} \cap DOMAIN result}

LocallyScheduled == {youtube, instagram, tiktok}

\* C13: schedule_upload for YouTube, Instagram and TikTok returns success =
\* true with a non-empty scheduling token (scheduled_id) for every scheduled
\* time that is a datetime, whatever the metadata and the credential, and
\* never a failure.
C13_LocalSchedulingToken ==
    (/\ last.op = "schedule_upload"
     /\ last.req.platform.t = "str"
     /\ last.req.platform.v \in LocallyScheduled
     /\ last.req.scheduled_time.t = "datetime")
    => /\ last.outcome.tag = "return"
       /\ last.outcome.value.success = TRUE
       /\ "error" \notin DOMAIN last.outcome.value
       /\ "scheduled_id" \in DOMAIN last.outcome.value
       /\ last.outcome.value.scheduled_id \in STRING
       /\ last.outcome.value.scheduled_id # ""
       /\ last.outcome.value.platform = last.req.platform.v

C13_Witness ==
    /\ last.op = "schedule_upload"
    /\ last.req.platform = Str(tiktok)
    /\ last.req.scheduled_time.t = "datetime"
    /\ ~last.req.scheduled_time.v.aware
    /\ last.req.metadata.t = "str"
    /\ last.req.token = ""
    /\ last.outcome.value.scheduled_id = "mock_tiktok_scheduled_id"

\* Seconds since the Unix epoch of the wall clocks of the requests, read as
\* UTC and rounded down to whole seconds
UnixSeconds ==
    [stamp \in {"2026-11-05T12:00:00", "2026-11-05T12:00:00.500000"}
       |-> 1793880000]

\* C14: of the four schedule operations only Facebook's builds a request
\* payload: it has published = 'false' and scheduled_publish_time equal to
\* the scheduled time as an integer Unix timestamp in seconds; the other
\* three adapters build no payload at all.
C14_FacebookDeferredPublish ==
    (last.op = "schedule_upload" /\ Len(last.calls) = 1)
    => /\ last.calls[1].key # facebook => last.built = << >>
       /\ (last.calls[1].key = facebook /\ Succeeded(last))
          => /\ Len(last.built) = 1
             /\ last.built[1].var = "post_data"
             /\ "published" \in DOMAIN last.built[1].value
             /\ last.built[1].value.published = "false"
             /\ "scheduled_publish_time" \in DOMAIN last.built[1].value
             /\ last.built[1].value.scheduled_publish_time \in Int
             /\ last.built[1].value.scheduled_publish_time
                  = UnixSeconds[last.req.scheduled_time.v.stamp]

C14_Witness ==
    /\ last.op = "schedule_upload"
    /\ last.req.platform = Str(facebook)
    /\ last.req.scheduled_time.v = FracMoment
    /\ Succeeded(last)
    /\ last.built[1].value.scheduled_publish_time = 1793880000

\* C15: for each of the four platform names, every upload id and every
\* credential, get_upload_status returns success = true with a status
\* string, the platform and the upload id it was given; never a failure.
C15_StatusAlwaysSucceeds ==
    (/\ last.op = "get_upload_status"
     /\ last.req.platform.t = "str"
     /\ last.req.platform.v \in FourPlatforms)
    => /\ last.outcome.tag = "return"
       /\ last.outcome.value.success = TRUE
       /\ "error" \notin DOMAIN last.outcome.value
       /\ last.outcome.value.status \in STRING
       /\ last.outcome.value.status # ""
       /\ last.outcome.value.upload_id = last.req.upload_id
       /\ last.outcome.value.platform = last.req.platform.v
       /\ Len(last.calls) = 1
       /\ last.calls[1].method = "get_status"

C15_Witness ==
    /\ last.op = "get_upload_status"
    /\ last.req.platform = Str(instagram)
    /\ last.req.token = ""
    /\ last.req.upload_id = "up2"
    /\ last.outcome.value.status = "completed"

ExtensionOf(path) ==
    IF \A i \in DOMAIN path : path[i] # "." THEN << >>
    ELSE LET suffixes == {k \in 1 .. Len(path) :
                            /\ path[k] = "."
                            /\ \A j \in (k + 1) .. Len(path) : path[j] # "."}
             k == CHOOSE k \in suffixes : TRUE
         IN Lower([i \in 1 .. (Len(path) - k) |-> path[k + i]])

\* The upload operation of the call took its video branch
TookVideoBranch(call) ==
    CASE call.calls[1].key = instagram ->
            /\ "video_url" \in DOMAIN call.built[1].value
            /\ call.built[1].value.media_type = "VIDEO"
      [] call.calls[1].key = facebook ->
            call.built[1].value[Len(call.built[1].value)] = "/videos"
      [] call.calls[1].key = tiktok ->
            call.built[1].value[Len(call.built[1].value)]
              = "/post/publish/video/init/"

\* C17: the Instagram, Facebook and TikTok upload operations take the video
\* branch exactly when the file extension of the path, compared without
\* regard to case, is mp4, mov or avi; every other path, one with an unknown
\* extension or with no extension at all included, takes the image branch.
C17_VideoIffVideoExtension ==
    (/\ last.op = "upload_to_platform"
     /\ Len(last.calls) = 1
     /\ last.calls[1].key \in {instagram, facebook, tiktok}
     /\ last.built # << >>)
    => (TookVideoBranch(last)
          <=> ExtensionOf(last.req.path)
                \in {<<"m","p","4">>, <<"m","o","v">>, <<"a","v","i">>})

\* Whole seconds of a datetime since midnight of day 0
WholeSeconds(dt) == ((dt.day * 24 + dt.hour) * 60 + dt.minute) * 60 + dt.second

\* The datetime of a number of whole seconds and a number of microseconds
AtSeconds(secs, micro) ==
    [day |-> secs \div 86400, hour |-> (secs % 86400) \div 3600,
     minute |-> (secs % 3600) \div 60, second |-> secs % 60,
     microsecond |-> micro]

\* The call was made with a str platform argument
NamedCall(op) == last.op = op /\ last.req.platform.t = "str"

\* C18: for a platform with table entries suggest_next_optimal_time takes
\* candidate = now + 2 hours and returns it unchanged when its clock hour is
\* in 11..21; otherwise it returns 11:00:00 of the candidate's calendar day,
\* or of the day after when that 11:00 is not strictly after now.
C18_SuggestedTimeSnapsToEleven ==
    (NamedCall("suggest_next_optimal_time")
       /\ last.req.platform.v \in FourPlatforms)
    => LET now == last.req.now
           candidate == WholeSeconds(now) + 7200
           hour == (candidate % 86400) \div 3600
           eleven == (candidate \div 86400) * 86400 + 11 * 3600
       IN /\ last.outcome.tag = "return"
          /\ last.outcome.value =
               IF hour >= 11 /\ hour <= 21
               THEN AtSeconds(candidate, now.microsecond)
               ELSE IF eleven > WholeSeconds(now)
               THEN AtSeconds(eleven, 0)
               ELSE AtSeconds(eleven + 86400, 0)

\* now = 20:00 gives 11:00 of the next day
C18_Witness ==
    /\ NamedCall("suggest_next_optimal_time")
    /\ last.req.platform.v = tiktok
    /\ last.req.now.hour = 20 /\ last.req.now.minute = 0
    /\ last.outcome.value =
         [day |-> 1, hour |-> 11, minute |-> 0, second |-> 0, microsecond |-> 0]

\* C19: for a name without table entries (any name other than the four
\* lowercase platform names) suggest_next_optimal_time returns exactly
\* now + 2 hours, also when the resulting hour is outside 11..21.
C19_UnknownPlatformPlusTwoHours ==
    (NamedCall("suggest_next_optimal_time")
       /\ last.req.platform.v \notin FourPlatforms)
    => /\ last.outcome.tag = "return"
       /\ last.outcome.value =
            AtSeconds(WholeSeconds(last.req.now) + 7200,
                      last.req.now.microsecond)

\* now = 22:59:59.999999 gives 00:59:59.999999 of the next day
C19_Witness ==
    /\ NamedCall("suggest_next_optimal_time")
    /\ last.req.platform.v = YouTubeMixed
    /\ last.req.now.hour = 22 /\ last.req.now.microsecond = 999999
    /\ last.outcome.value =
         [day |-> 1, hour |-> 0, minute |-> 59, second |-> 59,
          microsecond |-> 999999]

\* C20: get_optimal_times returns for each of the four platforms a fixed
\* ordered sequence of exactly 3 entries, each with day 'weekdays' or
\* 'weekend' and engagement 'high' or 'medium', the same on every call and
\* for every timezone, and the empty sequence for every other name.
C20_OptimalTimesTable ==
    NamedCall("get_optimal_times")
    => /\ last.outcome.tag = "return"
       /\ last.req.platform.v \notin FourPlatforms => last.outcome.value = << >>
       /\ last.req.platform.v \in FourPlatforms
          => /\ Len(last.outcome.value) = 3
             /\ \A i \in 1 .. 3 :
                   /\ last.outcome.value[i].day \in {"weekdays", "weekend"}
                   /\ last.outcome.value[i].engagement \in {"high", "medium"}
                   /\ last.outcome.value[i].time \in STRING
             /\ <<last.outcome.value[1].time, last.outcome.value[2].time,
                  last.outcome.value[3].time>>
                  = CASE last.req.platform.v = youtube ->
                           <<"14:00-16:00", "20:00-22:00", "09:00-11:00">>
                      [] last.req.platform.v = instagram ->
                           <<"11:00-13:00", "19:00-21:00", "10:00-12:00">>
                      [] last.req.platform.v = facebook ->
                           <<"13:00-15:00", "19:00-21:00", "12:00-14:00">>
                      [] last.req.platform.v = tiktok ->
                           <<"06:00-10:00", "19:00-21:00", "07:00-09:00">>
             /\ <<last.outcome.value[1].day, last.outcome.value[2].day,
                  last.outcome.value[3].day>>
                  = <<"weekdays", "weekdays", "weekend">>
             /\ <<last.outcome.value[1].engagement,
                  last.outcome.value[2].engagement,
                  last.outcome.value[3].engagement>>
                  = <<"high", "high", "medium">>

C20_Witness ==
    /\ NamedCall("get_optimal_times")
    /\ last.req.platform.v = YouTubeMixed
    /\ last.req.timezone = "Asia/Karachi"
    /\ last.outcome.value = << >>


\* ------------------------------------------------------------------------
\* Concurrent dispatcher calls (one SocialMediaService instance, created at
\* import of routes/media.py, shared by the request threads)
\* ------------------------------------------------------------------------
\* Dispatcher calls and their arguments
ConcurrentRequests ==
    {[op |-> c[1], platform |-> c[2], path |-> <<"a",".","m","p","4">>,
      metadata |-> GoodMetadata, token |-> "tok",
      scheduled_time |-> c[3], upload_id |-> c[4]] :
        c \in {<<"upload_to_platform", Str(facebook), PyNone, "">>,
               <<"upload_to_platform", Str(myspace), PyNone, "">>,
               <<"schedule_upload", Str(youtube),
                 [t |-> "datetime", v |-> Moment], "">>,
               <<"schedule_upload", Str(tiktok), PyNone, "">>,
               <<"get_upload_status", Str(instagram), PyNone, "up1">>,
               <<"get_upload_status", [t |-> "list", v |-> <<youtube>>],
                 PyNone, "up1">>}}

\* The key under which __init__ stored an adapter of the class
KeyOfClass(class) ==
    CASE class = "YouTubeService" -> youtube
      [] class = "InstagramService" -> instagram
      [] class = "FacebookService" -> facebook
      [] class = "TikTokService" -> tiktok

\* The outcome of the adapter method of req on the adapter object
AdapterCall(adapter, req) ==
    LET key == KeyOfClass(adapter.class)
    IN CASE req.op = "upload_to_platform" ->
                AdapterUpload(key, req.path, req.metadata, req.token)
         [] req.op = "schedule_upload" ->
                AdapterSchedule(key, req.path, req.metadata, req.token,
                                req.scheduled_time)
         [] req.op = "get_upload_status" ->
                GetStatus(key, req.upload_id, req.token)

AdapterAfterCall_Remembering(adapter, method) ==
    [adapter EXCEPT !.api_base = method]

\* The attributes of an adapter object after one of its methods ran: no
\* method of any adapter assigns to self
AdapterAfterCall(adapter, method) == adapter

\* The other threads that are inside a dispatcher call see a step of t
Overlap(t, mine) ==
    [u \in Threads |->
        IF u = t THEN mine
        ELSE IF threads[u].pc \in {"checked", "selected"}
             THEN [threads[u] EXCEPT !.overlapped = TRUE]
             ELSE threads[u]]

\* A thread enters a dispatcher method and evaluates
\* `platform not in self.platforms`
ThreadCheck ==
    \E t \in Threads, req \in ConcurrentRequests :
        /\ threads[t].pc = "idle"
        /\ threads' =
             Overlap(t,
               CASE ~Hashable(req.platform) ->
                      [Idle EXCEPT !.pc = "returned", !.req = req,
                                   !.result = UnhashableType(req.platform)]
                 [] Hashable(req.platform)
                    /\ ~(req.platform.t = "str"
                         /\ req.platform.v \in DOMAIN self_platforms) ->
                      [Idle EXCEPT !.pc = "returned", !.req = req,
                                   !.result = Ret(Unsupported(req.platform))]
                 [] OTHER -> [Idle EXCEPT !.pc = "checked", !.req = req])
        /\ UNCHANGED <<media, posts, nextMediaId, nextPostId, last,
                       remembered, self_platforms, api_key>>

\* service = self.platforms[platform], inside the try
ThreadSelect ==
    \E t \in Threads :
        /\ threads[t].pc = "checked"
        /\ threads' =
             Overlap(t,
               IF threads[t].req.platform.v \in DOMAIN self_platforms
               THEN [threads[t] EXCEPT
                       !.pc = "selected",
                       !.adapter = self_platforms[threads[t].req.platform.v]]
               ELSE [threads[t] EXCEPT
                       !.pc = "returned",
                       !.result = Ret(Failure(
                           <<"'">> \o threads[t].req.platform.v \o <<"'">>))])
        /\ UNCHANGED <<media, posts, nextMediaId, nextPostId, last,
                       remembered, self_platforms, api_key>>

\* The adapter method runs on the selected object; the dispatcher returns
\* its result or converts its exception
ThreadRun ==
    \E t \in Threads :
        /\ threads[t].pc = "selected"
        /\ LET req == threads[t].req
               key == KeyOfClass(threads[t].adapter.class)
               method == CASE req.op = "upload_to_platform" -> "upload_media"
                          [] req.op = "schedule_upload" -> "schedule_media"
                          [] req.op = "get_upload_status" -> "get_status"
           IN /\ threads' =
                   Overlap(t,
                     [threads[t] EXCEPT
                        !.pc = "returned",
                        !.result =
                           Dispatch(Str(key), method,
                                    AdapterCall(threads[t].adapter, req)).outcome])
              /\ self_platforms' =
                   [self_platforms EXCEPT
                      ![key] = AdapterAfterCall(self_platforms[key], method)]
        /\ UNCHANGED <<media, posts, nextMediaId, nextPostId, last, remembered,
                       api_key>>

\* The caller takes the result; the thread is free for the next request
ThreadReturn ==
    \E t \in Threads :
        /\ threads[t].pc = "returned"
        /\ threads' = [threads EXCEPT ![t] = Idle]
        /\ UNCHANGED <<media, posts, nextMediaId, nextPostId, last,
                       remembered, self_platforms, api_key>>

NextConcurrent ==
    \/ ThreadCheck
    \/ ThreadSelect
    \/ ThreadRun
    \/ ThreadReturn

SpecConcurrent == Init /\ [][NextConcurrent]_vars

\* The result of the dispatcher call when no other call is running
Alone(req) ==
    CASE req.op = "upload_to_platform" ->
            ServiceUploadToPlatform(req.platform, req.path, req.metadata,
                                    req.token).outcome
      [] req.op = "schedule_upload" ->
            ServiceScheduleUpload(req.platform, req.path, req.metadata,
                                  req.token, req.scheduled_time).outcome
      [] req.op = "get_upload_status" ->
            ServiceGetUploadStatus(req.platform, req.upload_id,
                                   req.token).outcome

\* C21: the platform-to-adapter mapping and the attributes of every adapter
\* stay as the constructor left them, and under every interleaving of the
\* threads' steps a dispatcher call returns the result the same call returns
\* when it runs alone.
C21_CallsShareNoMutableState ==
    /\ self_platforms = ConstructedPlatforms
    /\ \A t \in Threads :
          threads[t].pc = "returned"
              => threads[t].result = Alone(threads[t].req)

\* Two calls to the same adapter overlapped and both have returned
C21_Witness ==
    /\ \A t \in Threads :
          /\ threads[t].pc = "returned"
          /\ threads[t].overlapped
          /\ threads[t].adapter = ConstructedPlatforms[youtube]
          /\ threads[t].result.tag = "return"
          /\ threads[t].result.value.success


\* ------------------------------------------------------------------------
\* AIService (src/src/services/ai_service.py)
\* ------------------------------------------------------------------------
\* Python values of this section: a str keeps its characters, a dict its
\* items in insertion order as <<key characters, value>> pairs
PyText(chars) == [py |-> "str", chars |-> chars]

PyList(items) == [py |-> "list", items |-> items]

PyDict(items) == [py |-> "dict", items |-> items]

CaptionKey == <<"c","a","p","t","i","o","n">>

HashtagsKey == <<"h","a","s","h","t","a","g","s">>

SuggestedTimeKey == <<"s","u","g","g","e","s","t","e","d","_","t","i","m","e">>

\* json.loads. The scanner covers objects, arrays, strings without escape
\* sequences, integers and the literals null, true and false, separated by
\* JSON whitespace; the modelled responses stay inside this grammar. A scan
\* from index i gives [ok |-> FALSE], or the value read and the index after
\* it.
RECURSIVE SkipWs(_, _)
SkipWs(s, i) ==
    IF i <= Len(s) /\ s[i] \in {" ", "\n", "\t", "\r"} THEN SkipWs(s, i + 1) ELSE i

\* The index of the first quote at or after i, 0 when there is none
RECURSIVE StringEnd(_, _)
StringEnd(s, i) ==
    IF i > Len(s) THEN 0
    ELSE IF s[i] = "\"" THEN i
    ELSE StringEnd(s, i + 1)

ParseString(s, i) ==
    LET j == StringEnd(s, i + 1)
    IN IF j = 0 THEN [ok |-> FALSE]
       ELSE [ok |-> TRUE, value |-> PyText(SubSeq(s, i + 1, j - 1)), next |-> j + 1]

\* The index of the first character at or after i that is not a digit
RECURSIVE DigitsEnd(_, _)
DigitsEnd(s, i) ==
    IF i <= Len(s)
       /\ s[i] \in {"0", "1", "2", "3", "4", "5", "6", "7", "8", "9"}
    THEN DigitsEnd(s, i + 1) ELSE i

ParseNumber(s, i) ==
    LET start == IF s[i] = "-" THEN i + 1 ELSE i
        end == IF start <= Len(s) /\ s[start] = "0" THEN start + 1
               ELSE DigitsEnd(s, start)
    IN IF end = start THEN [ok |-> FALSE]
       ELSE [ok |-> TRUE, value |-> [py |-> "int", digits |-> SubSeq(s, i, end - 1)], next |-> end]

ParseLiteral(s, i, word, value) ==
    IF i + Len(word) - 1 <= Len(s) /\ SubSeq(s, i, i + Len(word) - 1) = word
    THEN [ok |-> TRUE, value |-> value, next |-> i + Len(word)]
    ELSE [ok |-> FALSE]

RECURSIVE ParseValue(_, _)
RECURSIVE ParseElements(_, _, _)
RECURSIVE ParseMembers(_, _, _)

ParseValue(s, i) ==
    IF i > Len(s) THEN [ok |-> FALSE]
    ELSE CASE s[i] = "\"" -> ParseString(s, i)
           [] s[i] = "[" ->
                LET k == SkipWs(s, i + 1)
                IN IF k <= Len(s) /\ s[k] = "]"
                   THEN [ok |-> TRUE, value |-> PyList(<< >>), next |-> k + 1]
                   ELSE ParseElements(s, k, << >>)
           [] s[i] = "{" ->
                LET k == SkipWs(s, i + 1)
                IN IF k <= Len(s) /\ s[k] = "}"
                   THEN [ok |-> TRUE, value |-> PyDict(<< >>), next |-> k + 1]
                   ELSE ParseMembers(s, k, << >>)
           [] s[i] \in {"-", "0", "1", "2", "3", "4", "5", "6", "7", "8", "9"} ->
                ParseNumber(s, i)
           [] s[i] = "n" -> ParseLiteral(s, i, <<"n","u","l","l">>, [py |-> "None"])
           [] s[i] = "t" ->
                ParseLiteral(s, i, <<"t","r","u","e">>, [py |-> "bool", b |-> TRUE])
           [] s[i] = "f" ->
                ParseLiteral(s, i, <<"f","a","l","s","e">>, [py |-> "bool", b |-> FALSE])
           [] OTHER -> [ok |-> FALSE]

ParseElements(s, i, acc) ==
    LET r == ParseValue(s, i)
    IN IF ~r.ok THEN [ok |-> FALSE]
       ELSE LET k == SkipWs(s, r.next)
            IN IF k > Len(s) THEN [ok |-> FALSE]
               ELSE IF s[k] = ","
               THEN ParseElements(s, SkipWs(s, k + 1), Append(acc, r.value))
               ELSE IF s[k] = "]"
               THEN [ok |-> TRUE, value |-> PyList(Append(acc, r.value)), next |-> k + 1]
               ELSE [ok |-> FALSE]

ParseMembers(s, i, acc) ==
    IF i > Len(s) \/ s[i] # "\"" THEN [ok |-> FALSE]
    ELSE LET key == ParseString(s, i)
         IN IF ~key.ok THEN [ok |-> FALSE]
            ELSE LET c == SkipWs(s, key.next)
                 IN IF c > Len(s) \/ s[c] # ":" THEN [ok |-> FALSE]
                    ELSE LET r == ParseValue(s, SkipWs(s, c + 1))
                         IN IF ~r.ok THEN [ok |-> FALSE]
                            ELSE LET k == SkipWs(s, r.next)
                                     items == Append(acc, <<key.value.chars,
                                                            r.value>>)
                                 IN IF k > Len(s) THEN [ok |-> FALSE]
                                    ELSE IF s[k] = ","
                                    THEN ParseMembers(s, SkipWs(s, k + 1),
                                                      items)
                                    ELSE IF s[k] = "}"
                                    THEN [ok |-> TRUE, value |-> PyDict(items), next |-> k + 1]
                                    ELSE [ok |-> FALSE]

\* json.loads(ai_response): a str is scanned, anything else is a TypeError
JsonLoads(ai_response) ==
    IF ai_response.py # "str"
    THEN Raise("TypeError",
               <<"the JSON object must be str, bytes or bytearray, not ",
                 ai_response.py>>)
    ELSE LET s == ai_response.chars
             r == ParseValue(s, SkipWs(s, 1))
         IN IF r.ok /\ SkipWs(s, r.next) > Len(s)
            THEN Ret(r.value)
            ELSE Raise("JSONDecodeError", <<"Expecting value">>)

\* The fallback of lines 124-128
FallbackContent(ai_response) ==
    PyDict(<< <<CaptionKey, PyText(SubSeq(ai_response.chars, 1,
                          IF Len(ai_response.chars) < 500
                          THEN Len(ai_response.chars) ELSE 500))>>,
              <<HashtagsKey,
                PyList(<<PyText(<<"#viral">>), PyText(<<"#trending">>),
                         PyText(<<"#content">>)>>)>>,
              <<SuggestedTimeKey, PyText(<<"Peak hours: 7-9 PM">>)>> >>)

\* One entry of the template table; the caption is kept as the pieces of
\* its f-string
Template(caption, hashtags, suggested_time) ==
    PyDict(<< <<CaptionKey, PyText(caption)>>,
              <<HashtagsKey,
                PyList([i \in DOMAIN hashtags |-> PyText(<<hashtags[i]>>)])>>,
              <<SuggestedTimeKey, PyText(<<suggested_time>>)>> >>)

\* platform_data of _get_mock_social_content
PlatformData(file_type) ==
    (youtube :>
        Template(<<"Check out this amazing ", file_type,
                   "! Don't forget to like and subscribe for more content like this. What do you think? Let me know in the comments below!">>,
                 <<"#YouTube", "#Content", "#Subscribe", "#Like", "#Share">>,
                 "Best times: 2-4 PM or 8-10 PM on weekdays"))
    @@ (instagram :>
        Template(<<"New ", file_type,
                   " alert! Swipe to see more and don't forget to double-tap if you love it!">>,
                 <<"#Instagram", "#InstaGood", "#PhotoOfTheDay", "#Content",
                   "#Viral">>,
                 "Peak engagement: 11 AM-1 PM or 7-9 PM"))
    @@ (facebook :>
        Template(<<"Sharing this incredible ", file_type,
                   " with all my friends! What are your thoughts? Tag someone who would love this!">>,
                 <<"#Facebook", "#Share", "#Friends", "#Content", "#Viral">>,
                 "Best times: 1-3 PM or 7-9 PM"))
    @@ (tiktok :>
        Template(<<"This ", file_type,
                   " is everything! Follow for more content like this! #fyp">>,
                 <<"#TikTok", "#FYP", "#Viral", "#Trending", "#ForYou">>,
                 "Peak hours: 6-10 AM or 7-9 PM"))

DefaultContent(file_type) ==
    Template(<<"Check out this amazing ", file_type,
               "! Hope you enjoy it as much as I do. Let me know what you think!">>,
             <<"#content", "#viral", "#trending", "#social", "#media">>,
             "Peak engagement hours: 7-9 PM")

MockPlatformKey_Exact(platform) == Ret(platform.v)

\* platform.lower(): raises when platform is not a str
MockPlatformKey(platform) ==
    IF platform.t = "str" THEN Ret(Lower(platform.v))
    ELSE NoAttribute(platform, "lower")

\* _get_mock_social_content
MockSocialContent(media_info, platform) ==
    LET file_type == DictGet(media_info.d, "file_type", "media")
        key == MockPlatformKey(platform)
    IN IF key.tag = "raise" THEN key
       ELSE Ret(IF key.value \in DOMAIN PlatformData(file_type)
                THEN PlatformData(file_type)[key.value]
                ELSE DefaultContent(file_type))

\* base_prompt, as the pieces of its f-string
BasePrompt(media_info, platform, custom_prompt) ==
    <<"Generate engaging social media content for a ",
      DictGet(media_info.d, "file_type", "media"), " file named ",
      DictGet(media_info.d, "filename", "content"),
      " that will be posted on ">> \o PyStr(platform)
    \o (IF custom_prompt # "" THEN <<"Additional context: ", custom_prompt>>
        ELSE << >>)

\* Lines 116-130: the message content is parsed and returned; a
\* JSONDecodeError gives the fallback, any other exception leaves the block
ParsedContent(ai_response) ==
    LET parsed == JsonLoads(ai_response)
    IN IF parsed.tag = "raise" /\ parsed.exc = "JSONDecodeError"
       THEN Ret(FallbackContent(ai_response))
       ELSE parsed

\* generate_social_media_content. key is openai.api_key; completion is the
\* outcome of openai.ChatCompletion.create followed by
\* response['choices'][0]['message']['content']: the content, or the
\* exception either of them raised. An exception inside the try leads to
\* _get_mock_social_content, whose own exception leaves the method.
GenerateSocialMediaContent(key, media_info, platform, custom_prompt, completion) ==
    IF key \in {None, ""}
    THEN [outcome |-> MockSocialContent(media_info, platform),
          calls |-> << >>, built |-> << >>]
    ELSE [outcome |->
             IF completion.tag = "raise"
                \/ ParsedContent(completion.value).tag = "raise"
             THEN MockSocialContent(media_info, platform)
             ELSE ParsedContent(completion.value),
          calls |-> << [method |-> "ChatCompletion.create",
                        outcome |-> completion] >>,
          built |-> BasePrompt(media_info, platform, custom_prompt)]

\* What the text generation gives back: a message content or an exception
CompletionInputs ==
    {Ret(PyText(chars)) : chars \in
        {\* the three keys, well formed
         <<"{","\"","c","a","p","t","i","o","n","\"",":"," ","\"",
           "L","a", "u","n","c","h","!","\"",","," ","\"","h","a","s",
           "h","t", "a","g","s","\"",":"," ","[","\"","#","n","e","w",
           "\"","]", ","," ","\"","s","u","g","g","e","s","t","e","d",
           "_","t", "i","m","e","\"",":"," ","\"","9"," ","A","M","\"",
           "}">>,
         \* plain text
         <<"S","u","r","e","!"," ","H","e","r","e"," ","i","t"," ",
           "i","s", ".">>,
         \* 501 characters that are not JSON
         [i \in 1 .. 501 |-> IF i = 501 THEN "y" ELSE "x"],
         \* an empty array
         <<"[","]">>,
         \* a number
         <<"4","2">>,
         \* an object with caption only
         <<"{","\"","c","a","p","t","i","o","n","\"",":"," ","\"",
           "L","a", "u","n","c","h","!","\"","}">>,
         \* JSON followed by text
         <<"{","\"","c","a","p","t","i","o","n","\"",":"," ","\"",
           "L","a", "u","n","c","h","!","\"","}"," ","E","n","j","o",
           "y">>,
         \* text followed by JSON
         <<"J","S","O","N",":","\n","{","\"","c","a","p","t","i","o",
           "n","\"",":", " ","\"","L","a","u","n","c","h","!","\"",
           "}">>,
         \* the empty text
         << >>}}
    \cup {Ret([py |-> "None"]),
          Raise("APIConnectionError", <<"Connection error.">>)}

CallGenerateSocialMediaContent ==
    \E media_info \in {Dict([filename |-> "a.mp4", file_type |-> "video",
                              mime_type |-> "video/mp4"]),
                        Dict([filename |-> "b.png", file_type |-> "image",
                              mime_type |-> "image/png"]),
                        Dict([filename |-> "c"])},
       platform \in {Str(youtube), Str(instagram), Str(facebook), Str(tiktok),
                     Str(YouTubeMixed), Str(TikTokUpper),
                     Str(<<"g","e","n","e","r","a","l">>), Str(myspace),
                     PyNone},
       custom_prompt \in {"", "launch day"},
       completion \in CompletionInputs :
        /\ last' = Call("generate_social_media_content",
                        [media_info |-> media_info, platform |-> platform,
                         custom_prompt |-> custom_prompt],
                        Resp(0, << >>,
                             GenerateSocialMediaContent(api_key, media_info,
                                                        platform, custom_prompt,
                                                        completion),
                             << >>),
                        {})
        /\ UNCHANGED <<media, posts, nextMediaId, nextPostId, remembered,
                       self_platforms, threads, api_key>>

NextAI == CallGenerateSocialMediaContent

\* AIService in a deployment with or without an API key
InitAI == Constructed /\ api_key \in {None, "", "sk-test"}

SpecAI == InitAI /\ [][NextAI]_vars


\* The keys of a dict of the AIService section
ContentKeys(d) == {d.items[i][1] : i \in DOMAIN d.items}

\* d[key] for a key the dict has
ContentGet(d, key) ==
    d.items[CHOOSE i \in DOMAIN d.items : d.items[i][1] = key][2]

IsContentMapping(v) ==
    /\ v.py = "dict"
    /\ {CaptionKey, HashtagsKey, SuggestedTimeKey} \subseteq ContentKeys(v)

\* The text generation answered the last call with a message content that
\* is a str
AnsweredWithText(call) ==
    /\ call.op = "generate_social_media_content"
    /\ call.calls # << >>
    /\ call.calls[1].outcome.tag = "return"
    /\ call.calls[1].outcome.value.py = "str"

\* C22: when the text generation answers with text that does not parse as
\* JSON, generate_social_media_content returns the first 500 characters of
\* the text as caption, the hashtags #viral, #trending, #content and the
\* fixed time hint; and whatever the text generation answers, every value
\* generate_social_media_content returns is a mapping that has the keys
\* caption, hashtags and suggested_time.
C22_FallbackOnUnparsableResponse ==
    last.op = "generate_social_media_content" =>
        /\ (AnsweredWithText(last)
            /\ JsonLoads(last.calls[1].outcome.value).tag = "raise")
              => /\ last.outcome.tag = "return"
                 /\ IsContentMapping(last.outcome.value)
                 /\ ContentGet(last.outcome.value, CaptionKey)
                      = PyText(SubSeq(last.calls[1].outcome.value.chars, 1,
                                    IF Len(last.calls[1].outcome.value.chars) < 500
                                    THEN Len(last.calls[1].outcome.value.chars)
                                    ELSE 500))
                 /\ ContentGet(last.outcome.value, HashtagsKey)
                      = PyList(<<PyText(<<"#viral">>), PyText(<<"#trending">>),
                                 PyText(<<"#content">>)>>)
                 /\ ContentGet(last.outcome.value, SuggestedTimeKey)
                      = PyText(<<"Peak hours: 7-9 PM">>)
        /\ last.outcome.tag = "return" => IsContentMapping(last.outcome.value)

\* The text generation was not available to the call
Unavailable(call) ==
    /\ call.op = "generate_social_media_content"
    /\ \/ call.calls = << >>
       \/ call.calls[1].outcome.tag = "raise"

\* C23: without an API key, or when the text generation call raises,
\* generate_social_media_content returns for a platform name the template of
\* the lower-cased name when that is one of the four platforms and the
\* default template otherwise; two such calls in a row with the same media
\* descriptor and platform return the same value.
C23_TemplateWhenUnavailable ==
    /\ [](Unavailable(last) /\ last.req.platform.t = "str"
            => LET file_type == DictGet(last.req.media_info.d, "file_type",
                                        "media")
                   name == Lower(last.req.platform.v)
               IN last.outcome =
                    Ret(IF name \in FourPlatforms
                        THEN PlatformData(file_type)[name]
                        ELSE DefaultContent(file_type)))
    /\ [][Unavailable(last) /\ Unavailable(last')
          /\ last'.req.media_info = last.req.media_info
          /\ last'.req.platform = last.req.platform
            => last'.outcome = last.outcome]_vars

\* The call raised with an API key set and the platform was named in
\* another letter case: the TikTok template came back
C23_Witness ==
    /\ Unavailable(last)
    /\ api_key = "sk-test"
    /\ last.calls # << >>
    /\ last.req.platform = Str(TikTokUpper)
    /\ last.outcome.tag = "return"
    /\ ContentGet(last.outcome.value, SuggestedTimeKey)
         = PyText(<<"Peak hours: 6-10 AM or 7-9 PM">>)


\* The adapter method of the call raised
AdapterRaised(call) ==
    /\ call.op \in DispatcherOps
    /\ call.calls # << >>
    /\ call.calls[1].outcome.tag = "raise"

\* C24: when the adapter method a dispatcher operation calls raises, the
\* operation returns a mapping with exactly success = false and error = the
\* message of the exception, the keys of the unsupported-platform failure;
\* and the dispatcher call made next is served: a get_upload_status for one
\* of the four platforms succeeds and an unsupported platform gets the
\* unsupported-platform failure.
C24_AdapterExceptionCaught ==
    /\ [](AdapterRaised(last)
            => /\ last.outcome
                    = Ret([success |-> FALSE,
                           error |-> last.calls[1].outcome.msg])
               /\ DOMAIN last.outcome.value
                    = DOMAIN Unsupported(Str(myspace)))
    /\ [][AdapterRaised(last) /\ last'.req.platform.t = "str"
            => /\ (last'.op = "get_upload_status"
                   /\ last'.req.platform.v \in FourPlatforms)
                     => /\ last'.outcome.tag = "return"
                        /\ last'.outcome.value.success
               /\ last'.req.platform.v \notin FourPlatforms
                     => last'.outcome = Ret(Unsupported(last'.req.platform))]_vars

\* YouTube's schedule_media raised on scheduled_time = None and the
\* dispatcher returned the failure carrying the AttributeError's message
C24_Witness ==
    /\ AdapterRaised(last)
    /\ last.op = "schedule_upload"
    /\ last.req.platform = Str(youtube)
    /\ last.calls[1].outcome.exc = "AttributeError"
    /\ last.outcome.tag = "return"
    /\ last.outcome.value.error = NoAttribute(PyNone, "isoformat").msg


\* C25: for every platform name and every now, the time
\* suggest_next_optimal_time returns is not earlier than now + 2 hours, so
\* it is after now; for one of the four platforms with table entries its
\* clock hour is between 11 and 21.
C25_SuggestedTimeAfterNow ==
    (NamedCall("suggest_next_optimal_time") /\ last.outcome.tag = "return")
    => LET now == last.req.now
           result == last.outcome.value
       IN /\ \/ WholeSeconds(result) > WholeSeconds(now) + 7200
             \/ /\ WholeSeconds(result) = WholeSeconds(now) + 7200
                /\ result.microsecond >= now.microsecond
          /\ result.hour \in 0 .. 23
          /\ last.req.platform.v \in FourPlatforms
               => result.hour >= 11 /\ result.hour <= 21

\* now = 21:30 on day 0: the candidate 23:30 is moved to 11:00, which on
\* day 0 is before now, so 11:00 of day 1 is returned
C25_Witness ==
    /\ NamedCall("suggest_next_optimal_time")
    /\ last.req.platform.v = instagram
    /\ last.req.now.hour = 21 /\ last.req.now.minute = 30
    /\ last.outcome.tag = "return"
    /\ last.outcome.value.day = 1
    /\ last.outcome.value.hour = 11


\* C26: the kind get_file_type stored for a media file and the adapters'
\* own classification of its path agree: an Instagram, Facebook or TikTok
\* upload of a stored file takes the video branch exactly when the file's
\* stored file_type is 'video'.
C26_StoredTypeMatchesAdapter ==
    (last.op = "route.upload_to_platform"
       /\ Len(last.calls) = 1
       /\ last.calls[1].key \in {instagram, facebook, tiktok})
    => (TookVideoBranch(last)
          <=> media[last.req.media_file_id].file_type = "video")


\* C27: every stored post record references a media file whose owner is the
\* record's user; a schedule_post request answered 403 created no record and
\* built none; and every record the two platform routes build takes its
\* user_id from the media file it references.
C27_PostOwnerIsMediaOwner ==
    /\ \A i \in DOMAIN posts :
          /\ posts[i].media_file_id \in DOMAIN media
          /\ posts[i].user_id = media[posts[i].media_file_id].user_id
    /\ (last.op = "route.schedule_post" /\ last.http = 403)
          => last.created = {} /\ last.attempt = << >>
    /\ (last.op = "route.schedule_post" /\ last.req.user_id = 2)
          => last.created = {}
    /\ last.op \in {"route.upload_to_platform", "route.schedule_platform_upload"}
          => \A i \in DOMAIN last.attempt :
                /\ KwValue(last.attempt[i], "media_file_id") \in DOMAIN media
                /\ KwValue(last.attempt[i], "user_id")
                     = media[KwValue(last.attempt[i], "media_file_id")].user_id

\* User 2 asked to schedule a post on the file of user 1, which already has
\* a post of user 1, and was answered 403
C27_Witness ==
    /\ last.op = "route.schedule_post"
    /\ last.req.user_id = 2
    /\ last.http = 403
    /\ \E i \in DOMAIN posts :
          posts[i].user_id = 1 /\ media[posts[i].media_file_id].user_id = 1


\* C28: schedule_platform_upload stores a post record exactly when the
\* dispatcher's schedule result has success = true; the stored record has
\* status 'scheduled' and the scheduled time of the request; when the result
\* has success = false, or no dispatcher call was made because the
\* scheduled time did not parse, no record is stored.
C28_ScheduledRecordIffSuccess ==
    last.op = "route.schedule_platform_upload"
    => /\ last.created # {} <=> Succeeded(last)
       /\ \A i \in last.created :
             /\ i \in DOMAIN posts
             /\ posts[i].status = "scheduled"
             /\ \E k \in DOMAIN last.attempt :
                   posts[i].scheduled_time
                     = KwValue(last.attempt[k], "scheduled_time")


C30_PostsReferenceExistingMedia ==
    /\ [](\A i \in DOMAIN posts : posts[i].media_file_id \in DOMAIN media)
    /\ [][last'.op = "route.delete_media_file"
            => LET file_id == last'.req.file_id
               IN IF last'.http = 204
                  THEN /\ file_id \in DOMAIN media
                       /\ DOMAIN media' = DOMAIN media \ {file_id}
                       /\ DOMAIN posts' =
                            {i \in DOMAIN posts :
                                posts[i].media_file_id # file_id}
                       /\ \A i \in DOMAIN posts' : posts'[i] = posts[i]
                  ELSE media' = media /\ posts' = posts]_vars

\* The deleted file had a scheduled and a cancelled post; both are gone
C30_Witness ==
    /\ last.op = "route.delete_media_file"
    /\ last.http = 204
    /\ last.req.statuses = {"scheduled", "cancelled"}
    /\ DOMAIN posts = {}
    /\ DOMAIN media = {}

====
